---- MODULE Spec2Model ----
(***************************************************************************)
(* River-level simulation and crawl driver of msa30dn_flood_prediction     *)
(* (src/river_level_crawler.py, src/setup_db.py).                          *)
(*                                                                         *)
(* Units.  The code computes in floating point; the model computes in      *)
(* fixed point:                                                            *)
(*   levels, changes, rainfall, humidity, pressure, wind : 1/1000 of the   *)
(*       code's unit (milli-cm, milli-mm, ...), so 8.0 cm is 8000;         *)
(*   factors (seasonal, daily, tidal, volatility)        : millionths;     *)
(*   a value stored by round(x, 2) is a multiple of 10 (Round2).           *)
(* A random draw is a unit variate u in 0..999 (thousandths of [0,1)); the *)
(* "seed" of one simulate_river_level call is the record of the variates   *)
(* its draw sites receive.  uniform(lo, hi) is lo + (hi - lo) * u.         *)
(***************************************************************************)
EXTENDS Integers, Sequences, FiniteSets, TLC

(* ---------------------------------------------------------------------- *)
(* Arithmetic helpers                                                      *)
(* ---------------------------------------------------------------------- *)

\* Division truncating toward zero (the sign-symmetric stand-in for float /).
SDiv(a, b) ==
    IF a >= 0 THEN a \div b ELSE -((-a) \div b)

Abs(x) ==
    IF x >= 0 THEN x ELSE -x

Max2(a, b) ==
    IF a >= b THEN a ELSE b

Min2(a, b) ==
    IF a <= b THEN a ELSE b

\* a * b / c for a, b >= 0 without leaving 32 bits: (a div c) * b plus the
\* remainder's share.
MulDiv(a, b, c) ==
    (a \div c) * b + ((a % c) * b) \div c

\* np.random.uniform(lo, hi) for the unit variate u (thousandths).
Uniform(lo, hi, u) ==
    lo + SDiv((hi - lo) * u, 1000)

\* F(x), with x evaluated once.
At(F(_), x) ==
    CHOOSE y \in {F(v) : v \in {x}} : TRUE

\* round(x, 2) on a value in thousandths: the nearest multiple of 10,
\* a tie going to the even hundredth (Python's round).
Round2(x) ==
    LET a == Abs(x)
        q == a \div 10
        r == a % 10
        n == IF r < 5 THEN q
             ELSE IF r > 5 THEN q + 1
             ELSE IF q % 2 = 0 THEN q ELSE q + 1
    IN  IF x >= 0 THEN 10 * n ELSE -(10 * n)

\* round(x, 3) on a factor in millionths: the nearest multiple of 1000.
Round3(x) ==
    LET q == x \div 1000
        r == x % 1000
        n == IF r < 500 THEN q
             ELSE IF r > 500 THEN q + 1
             ELSE IF q % 2 = 0 THEN q ELSE q + 1
    IN  1000 * n

RECURSIVE ISqrtIn(_, _, _)
\* The largest k in lo..hi with k * k <= x (bisection).
ISqrtIn(x, lo, hi) ==
    IF lo >= hi THEN lo
    ELSE LET mid == (lo + hi + 1) \div 2
         IN  IF mid * mid <= x THEN ISqrtIn(x, mid, hi)
             ELSE ISqrtIn(x, lo, mid - 1)

ISqrt(x) ==
    ISqrtIn(x, 0, 46340)

(* ---------------------------------------------------------------------- *)
(* Station registry                                                        *)
(* ---------------------------------------------------------------------- *)

\* RIVER_STATIONS: levels in cm, base_flow_rate in m3/s, volatility in
\* thousandths.  seasonal_factor is configured but read by no function.
RIVER_STATIONS ==
    << [location_name |-> "Hanoi", river_name |-> "Red River",
        normal_level |-> 250, alert_level_1 |-> 350, alert_level_2 |-> 450,
        alert_level_3 |-> 550, base_flow_rate |-> 1200,
        tidal_effect |-> FALSE, dam_controlled |-> TRUE, volatility |-> 80],
       [location_name |-> "Ho_Chi_Minh_City", river_name |-> "Saigon River",
        normal_level |-> 120, alert_level_1 |-> 180, alert_level_2 |-> 220,
        alert_level_3 |-> 270, base_flow_rate |-> 800,
        tidal_effect |-> TRUE, dam_controlled |-> FALSE, volatility |-> 120],
       [location_name |-> "Da_Nang", river_name |-> "Han River",
        normal_level |-> 150, alert_level_1 |-> 200, alert_level_2 |-> 250,
        alert_level_3 |-> 300, base_flow_rate |-> 600,
        tidal_effect |-> TRUE, dam_controlled |-> TRUE, volatility |-> 100],
       [location_name |-> "Hue", river_name |-> "Perfume River",
        normal_level |-> 100, alert_level_1 |-> 150, alert_level_2 |-> 200,
        alert_level_3 |-> 250, base_flow_rate |-> 400,
        tidal_effect |-> FALSE, dam_controlled |-> FALSE, volatility |-> 90],
       [location_name |-> "Can_Tho", river_name |-> "Mekong River",
        normal_level |-> 200, alert_level_1 |-> 280, alert_level_2 |-> 350,
        alert_level_3 |-> 420, base_flow_rate |-> 2000,
        tidal_effect |-> TRUE, dam_controlled |-> FALSE, volatility |-> 150],
       [location_name |-> "Hai_Phong", river_name |-> "Thai Binh River",
        normal_level |-> 250, alert_level_1 |-> 350, alert_level_2 |-> 450,
        alert_level_3 |-> 550, base_flow_rate |-> 900,
        tidal_effect |-> TRUE, dam_controlled |-> TRUE, volatility |-> 110],
       [location_name |-> "Nha_Trang", river_name |-> "Cai River",
        normal_level |-> 80, alert_level_1 |-> 120, alert_level_2 |-> 160,
        alert_level_3 |-> 200, base_flow_rate |-> 300,
        tidal_effect |-> FALSE, dam_controlled |-> FALSE, volatility |-> 140] >>

\* min_level = normal_level * 0.3 and max_level = alert_level_3 * 1.2, in
\* thousandths of a cm.
MinLevel(station) ==
    station.normal_level * 300

MaxLevel(station) ==
    station.alert_level_3 * 1200

(* ---------------------------------------------------------------------- *)
(* State                                                                   *)
(* ---------------------------------------------------------------------- *)

VARIABLES
    now,        \* datetime.now(): [t, month, hour, minute, day]
    store,      \* river_level_data: per station, its rows oldest first
    rainfall,   \* rainfall_data: per station, its newest row (<<>>: none)
    lastCall,   \* the latest simulate_river_level calls, newest last
    focus,      \* the station a simulation study follows (0: none)
    cycles,     \* station cycles completed so far
    missing,    \* <<>>, or <<s, field>>: the key station s's dict lacks
    driver,     \* per run of main: its position and locals
    conns,      \* connections opened and not closed
    faults,     \* store operations that failed so far
    shown,      \* the alert levels the prediction screen computed so far
    df,         \* the sample table (DataFrame) the predictor works on
    predictor,  \* the predictor's position, and the exception it raised
    trained,    \* what train_model returned, and how it split and fitted
    call,       \* the latest predict_flood_risk call and what it returned
    gui         \* the screen's self.model, self.features, self.is_advanced

vars ==
    << now, store, rainfall, lastCall, focus, cycles, missing, driver,
       conns, faults, shown, df, predictor, trained, call, gui >>

\* The variables of the simulation study, and of the runs of main.
studyVars ==
    << lastCall, focus, cycles >>

driverVars ==
    << missing, driver, conns, faults >>

\* The variables of the crawler (river_level_crawler.py), and of the
\* predictor and its screen (predictor.py, flood_prediction_gui.py).
crawlerVars ==
    << now, store, rainfall, studyVars, driverVars >>

predictorVars ==
    << shown, df, predictor, trained, call, gui >>

\* predict_flood_risk before it was called, and FloodPredictionGUI after
\* __init__ ("self.model = None", ..., "self.is_advanced = False"), with
\* the classes_ of its model, what train_model returned to it last, and the
\* number of its operations so far.
NotCalled ==
    [calls |-> 0, model |-> <<>>, classes |-> <<>>, features |-> <<>>,
     weather_data |-> {}, is_advanced |-> FALSE, probabilities |-> <<>>,
     returned |-> <<>>, raised |-> <<>>]

NoModel ==
    [model |-> <<>>, classes |-> <<>>, features |-> <<>>,
     is_advanced |-> FALSE, result |-> <<>>, ops |-> 0]

\* The predictor and its screen before anything ran.
PredictorIdle ==
    /\ shown = <<>>
    /\ df = [columns |-> {}, rows |-> <<>>]
    /\ predictor = [pc |-> "idle", raised |-> <<>>]
    /\ trained = [returned |-> <<>>, mode |-> "none", split |-> "none",
                  fits |-> 0, failure |-> "none"]
    /\ call = NotCalled
    /\ gui = NoModel

(* ---------------------------------------------------------------------- *)
(* Seasonal, daily and tidal factors (they read the clock)                 *)
(* ---------------------------------------------------------------------- *)

\* base_factor of get_seasonal_factor, in thousandths.
SeasonBase(month) ==
    IF 5 <= month /\ month <= 10
    THEN (IF 7 <= month /\ month <= 9 THEN 1500 ELSE 1300)
    ELSE (IF 2 <= month /\ month <= 4 THEN 600 ELSE 800)

\* get_seasonal_factor(): base_factor * uniform(0.9, 1.1), in millionths.
get_seasonal_factor(u) ==
    (SeasonBase(now.month) * Uniform(900000, 1100000, u)) \div 1000

\* hour_factors of get_daily_cycle_factor, in thousandths, hours 0..23.
HourFactors ==
    <<  950,  900,  850,  880,  920,  980,
       1050, 1080, 1030, 1000,  980,  950,
        900,  880,  920,  950,  980, 1020,
       1060, 1040, 1000,  980,  960,  940 >>

\* get_daily_cycle_factor(): hour factor * uniform(0.98, 1.02), millionths.
get_daily_cycle_factor(u) ==
    (HourFactors[now.hour + 1] * Uniform(980000, 1020000, u)) \div 1000

\* 1000 * sin(2 * pi * t / 12.5) for t = 0, 0.5, 1, ..., 23.5 hours.
SinTable ==
    <<     0,   249,   482,   685,   844,   951,   998,   982,
         905,   771,   588,   368,   125,  -125,  -368,  -588,
        -771,  -905,  -982,  -998,  -951,  -844,  -685,  -482,
        -249,     0,   249,   482,   685,   844,   951,   998,
         982,   905,   771,   588,   368,   125,  -125,  -368,
        -588,  -771,  -905,  -982,  -998,  -951,  -844,  -685 >>

\* A tidal effect whose phase runs on from day to day instead of starting
\* at each midnight.
get_tidal_effect_dated(station, d) ==
    IF ~station.tidal_effect THEN 1000000
    ELSE LET tidal_cycle     == SinTable[((48 * now.day + 2 * now.hour
                                           + (now.minute \div 30)) % 25) + 1]
             tidal_amplitude == Uniform(5000, 15000, d.u_tide_amp)
             random_tidal    == Uniform(8000, 12000, d.u_tide_rand)
             swing == SDiv(SDiv(tidal_cycle * tidal_amplitude, 1000)
                             * random_tidal, 10000)
             tidal_effect == 1000000 + SDiv(swing * 1000, station.normal_level)
         IN  Max2(800000, Min2(1200000, tidal_effect))

\* get_tidal_effect(station): 1 + sin * amplitude * random / normal_level,
\* kept within [0.8, 1.2]; millionths.  The clock's minute is 0 or 30.
get_tidal_effect(station, d) ==
    IF ~station.tidal_effect THEN 1000000
    ELSE LET tidal_cycle     == SinTable[2 * now.hour + (now.minute \div 30) + 1]
             tidal_amplitude == Uniform(5000, 15000, d.u_tide_amp)
             random_tidal    == Uniform(8000, 12000, d.u_tide_rand)
             swing == SDiv(SDiv(tidal_cycle * tidal_amplitude, 1000)
                             * random_tidal, 10000)
             tidal_effect == 1000000 + SDiv(swing * 1000, station.normal_level)
         IN  Max2(800000, Min2(1200000, tidal_effect))

(* ---------------------------------------------------------------------- *)
(* Weather impact                                                          *)
(* ---------------------------------------------------------------------- *)

\* The rain-impact arithmetic of get_weather_impact_advanced.
RainImpact(rainfall_1h, rainfall_3h, humidity, pressure, wind_speed) ==
    LET tier == IF rainfall_1h > 0
                THEN (IF rainfall_1h > 20000 THEN (rainfall_1h * 20) \div 10
                      ELSE IF rainfall_1h > 10000 THEN (rainfall_1h * 15) \div 10
                      ELSE IF rainfall_1h > 5000 THEN (rainfall_1h * 12) \div 10
                      ELSE rainfall_1h)
                ELSE 0
        acc  == IF rainfall_3h > rainfall_1h
                THEN tier + ((rainfall_3h - rainfall_1h) * 7) \div 10
                ELSE tier
        hum  == IF humidity > 90000 THEN (acc * 12) \div 10
                ELSE IF humidity > 80000 THEN (acc * 11) \div 10
                ELSE IF humidity < 50000 THEN (acc * 8) \div 10
                ELSE acc
        pre  == IF pressure < 990000 THEN (hum * 14) \div 10
                ELSE IF pressure < 1000000 THEN (hum * 12) \div 10
                ELSE IF pressure < 1005000 THEN (hum * 11) \div 10
                ELSE IF pressure > 1020000 THEN (hum * 9) \div 10
                ELSE hum
    IN  IF wind_speed > 40000 THEN (pre * 95) \div 100
        ELSE IF wind_speed > 25000 THEN (pre * 97) \div 100
        ELSE IF wind_speed < 5000 THEN (pre * 105) \div 100
        ELSE pre

\* The weather get_weather_impact_advanced synthesizes when it is given no
\* sample: a wet-season or dry-season draw.
SyntheticWeather(d) ==
    LET season_factor == get_seasonal_factor(d.u_syn_season)
    IN  IF season_factor > 1200000
        THEN LET r1 == (8 * d.e_syn_rain * Uniform(5000, 20000, d.u_syn_rain)) \div 10000
             IN  [rainfall_1h |-> r1,
                  rainfall_3h |-> (r1 * Uniform(2000, 4000, d.u_syn_r3)) \div 1000,
                  humidity    |-> Uniform(75000, 95000, d.u_syn_hum),
                  pressure    |-> Uniform(995000, 1010000, d.u_syn_press),
                  wind_speed  |-> Uniform(5000, 25000, d.u_syn_wind)]
        ELSE LET r1 == (d.e_syn_rain * Uniform(0, 15000, d.u_syn_rain)) \div 10000
             IN  [rainfall_1h |-> r1,
                  rainfall_3h |-> MulDiv(r1, Uniform(10000, 25000, d.u_syn_r3), 10000),
                  humidity    |-> Uniform(50000, 75000, d.u_syn_hum),
                  pressure    |-> Uniform(1010000, 1025000, d.u_syn_press),
                  wind_speed  |-> Uniform(5000, 25000, d.u_syn_wind)]

\* get_weather_impact_advanced(weather_data, station): weather_data is <<>>
\* (None) or <<sample>>.
get_weather_impact_advanced(weather_data, d) ==
    LET Impact(w) == RainImpact(w.rainfall_1h, w.rainfall_3h, w.humidity,
                                w.pressure, w.wind_speed)
    IN  At(Impact, IF weather_data = <<>> THEN SyntheticWeather(d)
                   ELSE weather_data[1])

(* ---------------------------------------------------------------------- *)
(* Human, geological and natural terms                                     *)
(* ---------------------------------------------------------------------- *)

\* get_human_activities_impact(station): dam release (5%), mining (2%),
\* construction (1%).
get_human_activities_impact(station, d) ==
    (IF station.dam_controlled /\ d.u_dam_p < 50
     THEN Uniform(20000, 60000, d.u_dam) ELSE 0)
    + (IF d.u_mine_p < 20 THEN Uniform(-10000, -25000, d.u_mine) ELSE 0)
    + (IF d.u_cons_p < 10 THEN Uniform(-5000, 15000, d.u_cons) ELSE 0)

\* get_geological_factors(station): erosion (0.5%) plus sedimentation.
get_geological_factors(d) ==
    (IF d.u_ero_p < 5 THEN Uniform(8000, 20000, d.u_ero) ELSE 0)
    + Uniform(-2000, 3000, d.u_sed)

\* calculate_natural_flow_change(prev_level, station).
calculate_natural_flow_change(prev_level, station, d) ==
    LET normal == station.normal_level * 1000
        natural_decline ==
            IF prev_level > 2 * normal THEN Uniform(5000, 10000, d.u_decline)
            ELSE IF 10 * prev_level > 15 * normal THEN Uniform(4000, 8000, d.u_decline)
            ELSE IF 10 * prev_level > 12 * normal THEN Uniform(2000, 6000, d.u_decline)
            ELSE IF 10 * prev_level > 8 * normal THEN Uniform(1000, 4000, d.u_decline)
            ELSE Uniform(500, 2000, d.u_decline)
        volatility_factor ==
            1000000 + Uniform(-(station.volatility * 500),
                              station.volatility * 500, d.u_vol)
    IN  (natural_decline * (volatility_factor \div 100)) \div 10000

(* ---------------------------------------------------------------------- *)
(* simulate_river_level                                                    *)
(* ---------------------------------------------------------------------- *)

\* max_change: the smoothing cap, 8.0 cm.
max_change ==
    8000

\* Smoothing without the cap: the summed change passes unchanged.
CapChangeOff(sum) ==
    sum

\* The smoothing step: a summed change beyond max_change in size is cut to
\* max_change with the sign kept.
CapChange(sum) ==
    IF Abs(sum) > max_change
    THEN (IF sum > 0 THEN max_change ELSE -max_change)
    ELSE sum

\* Trend thresholds of 3 cm instead of 2 cm.
TrendWide(level_change) ==
    IF level_change > 3000 THEN "rising"
    ELSE IF level_change < -3000 THEN "falling"
    ELSE "stable"

\* The trend thresholds of simulate_river_level (2 cm).
Trend(level_change) ==
    IF level_change > 2000 THEN "rising"
    ELSE IF level_change < -2000 THEN "falling"
    ELSE "stable"

\* No clamp: the level passes unchanged.
ClampLevelOff(station, level) ==
    level

\* The level the clamp "max(min_level, min(new_level, max_level))" yields.
ClampLevel(station, level) ==
    Max2(MinLevel(station), Min2(level, MaxLevel(station)))

\* The change measured on the level before the clamp.
LevelChangeUnclamped(prev_level, raw_level, new_level) ==
    raw_level - prev_level

\* "level_change = new_level - prev_level", evaluated after new_level was
\* reassigned by the clamp (raw_level is its value before).
LevelChange(prev_level, raw_level, new_level) ==
    new_level - prev_level

\* flow_rate = base_flow_rate * level_ratio ** 1.5, times 1.15 after more
\* than 15 mm of rain in the sample, times uniform(0.92, 1.08); thousandths
\* of a m3/s.  level_ratio (millionths) ** 1.5 is ratio * sqrt(ratio).
FlowRate(station, new_level, weather_data, d) ==
    LET level_ratio == (new_level * 1000) \div station.normal_level
        root == ISqrt(level_ratio * 100)
        base == MulDiv(MulDiv(level_ratio, station.base_flow_rate, 100),
                       root, 100000)
        wet  == IF weather_data # <<>> /\ weather_data[1].rainfall_1h > 15000
                THEN (base * 115) \div 100 ELSE base
        flow_variation == Uniform(9200, 10800, d.u_flow)
    IN  (wet \div 10000) * flow_variation
        + ((wet % 10000) * flow_variation) \div 10000

\* The first half of simulate_river_level: the previous level and trend it
\* starts from, the factors it reports and the sum of the change terms.
ChangeTerms(station, prev_data, weather_data, d) ==
    LET normal == station.normal_level
        prev_level ==
            IF prev_data # <<>>
            THEN prev_data[1]
            ELSE MulDiv((normal * get_seasonal_factor(d.u_def_season)) \div 1000,
                        Uniform(4500, 5500, d.u_def_level), 5000)
        prev_trend == IF prev_data # <<>> THEN prev_data[2] ELSE "stable"
        Terms(prev, weather_impact, seasonal_factor, tidal_factor) ==
            LET seasonal_impact ==
                    SDiv(SDiv((seasonal_factor - 1000000) * normal, 100) * 15, 1000)
                daily_cycle == get_daily_cycle_factor(d.u_daily)
                daily_impact ==
                    SDiv(SDiv((daily_cycle - 1000000) * normal, 100) * 5, 1000)
                tidal_impact == SDiv((tidal_factor - 1000000) * normal, 2000)
                human_impact == get_human_activities_impact(station, d)
                geological_impact == get_geological_factors(d)
                natural_decline == calculate_natural_flow_change(prev, station, d)
                momentum_impact ==
                    IF prev_trend = "rising" THEN Uniform(1000, 4000, d.u_mom)
                    ELSE IF prev_trend = "falling" THEN Uniform(-4000, -1000, d.u_mom)
                    ELSE 0
            IN  [prev_level      |-> prev,
                 weather_impact  |-> weather_impact,
                 seasonal_factor |-> seasonal_factor,
                 tidal_factor    |-> tidal_factor,
                 sum |-> weather_impact + seasonal_impact + daily_impact
                         + tidal_impact + human_impact + geological_impact
                         + momentum_impact - natural_decline]
        WithPrev(prev) ==
            Terms(prev, get_weather_impact_advanced(weather_data, d),
                  get_seasonal_factor(d.u_season), get_tidal_effect(station, d))
    IN  At(WithPrev, prev_level)

\* simulate_river_level(station, weather_data), given what its call of
\* get_previous_river_level returned (prev_data: <<>> or <<level, trend>>).
\* Besides the fields of the returned dict the record keeps the locals
\* prev_level, raw_level (new_level before the clamp into the bounds) and
\* new_level (after it, before round), and whether the weather was
\* synthesized.
simulate_river_level(station, prev_data, weather_data, d) ==
    LET Result(t) ==
            LET total_change == CapChange(t.sum)
                measurement_noise == Uniform(-1000, 1000, d.u_noise)
                raw_level == t.prev_level + total_change + measurement_noise
                new_level == ClampLevel(station, raw_level)
                level_change == LevelChange(t.prev_level, raw_level, new_level)
            IN  [water_level     |-> Round2(new_level),
                 flow_rate       |-> Round2(FlowRate(station, new_level,
                                                     weather_data, d)),
                 trend           |-> Trend(level_change),
                 weather_impact  |-> Round2(t.weather_impact),
                 level_change    |-> Round2(level_change),
                 seasonal_factor |-> Round3(t.seasonal_factor),
                 tidal_factor    |-> IF station.tidal_effect
                                     THEN Round3(t.tidal_factor)
                                     ELSE 1000000,
                 prev_level      |-> t.prev_level,
                 raw_level       |-> raw_level,
                 new_level       |-> new_level,
                 synthetic       |-> (weather_data = <<>>)]
    IN  At(Result, ChangeTerms(station, prev_data, weather_data, d))

(* ---------------------------------------------------------------------- *)
(* Store operations (setup_db.get_connection / close_connection around     *)
(* one statement each)                                                     *)
(* ---------------------------------------------------------------------- *)

\* How one store operation ends: the statement ran ("ok"), get_connection
\* returned None ("noconn"), or the statement raised after the connection
\* was opened ("raise": the except branch returns without close_connection).
Outcomes ==
    {"ok", "noconn", "raise"}

\* Connections left open by one operation that ended with outcome o.
Leaked(o) ==
    IF o \in {"raise", "late"} THEN 1 ELSE 0

\* save_river_level_data can also fail after its INSERT took effect
\* ("late"): the connection is opened with autocommit, so the row is
\* persisted by cursor.execute, and a statement after it in the try block
\* (conn.commit(), cursor.close()) raises into the same except branch.
SaveOutcomes ==
    Outcomes \cup {"late"}

\* A read that falls back on the newest row whatever the outcome.
get_previous_river_level_cached(st, s, o) ==
    IF st[s] # <<>>
    THEN << st[s][Len(st[s])].water_level, st[s][Len(st[s])].trend >>
    ELSE <<>>

\* get_previous_river_level(location_name, river_name): the newest row's
\* (water_level, trend), or None.
get_previous_river_level(st, s, o) ==
    IF o = "ok" /\ st[s] # <<>>
    THEN << st[s][Len(st[s])].water_level, st[s][Len(st[s])].trend >>
    ELSE <<>>

\* The id of the row a successful get_previous_river_level read (0: none).
ReadId(st, s, o) ==
    IF o = "ok" /\ st[s] # <<>> THEN st[s][Len(st[s])].id ELSE 0

\* check_daily_record_count(location_name, river_name): today's rows of the
\* station; 0 when the operation fails.
check_daily_record_count(st, s, o) ==
    IF o = "ok"
    THEN Cardinality({i \in 1..Len(st[s]) : st[s][i].day = now.day})
    ELSE 0

\* The AUTO_INCREMENT id the next row of river_level_data gets.
NextId(st) ==
    LET ids == UNION {{st[s][i].id : i \in 1..Len(st[s])} : s \in DOMAIN st}
    IN  IF ids = {} THEN 1 ELSE 1 + CHOOSE m \in ids : \A k \in ids : k <= m

\* An INSERT that is dropped when the row the record was computed from is
\* no longer the newest of its station.
InsertRowIfFresh(st, s, river_data, pred) ==
    IF ReadId(st, s, "ok") # pred THEN st
    ELSE [st EXCEPT ![s] = Append(@, [id          |-> NextId(st),
                                      water_level |-> river_data.water_level,
                                      flow_rate   |-> river_data.flow_rate,
                                      trend       |-> river_data.trend,
                                      day         |-> now.day,
                                      pred        |-> pred])]

\* The INSERT of save_river_level_data.  pred is not a column: it keeps the
\* id of the row the record was computed from (0: none).
InsertRow(st, s, river_data, pred) ==
    [st EXCEPT ![s] = Append(@, [id          |-> NextId(st),
                                 water_level |-> river_data.water_level,
                                 flow_rate   |-> river_data.flow_rate,
                                 trend       |-> river_data.trend,
                                 day         |-> now.day,
                                 pred        |-> pred])]

RECURSIVE KeepNewest(_, _)
\* rows without today's rows other than the n newest of today.
KeepNewest(rows, n) ==
    IF rows = <<>> THEN <<>>
    ELSE LET last == rows[Len(rows)]
             rest == SubSeq(rows, 1, Len(rows) - 1)
         IN  IF last.day # now.day THEN Append(KeepNewest(rest, n), last)
             ELSE IF n > 0 THEN Append(KeepNewest(rest, n - 1), last)
             ELSE KeepNewest(rest, 0)

\* MIN_DAILY_RECORDS of main, and the LIMIT 3 of the cleanup statement.
MIN_DAILY_RECORDS ==
    3

\* A cleanup whose statement keeps one row fewer.
cleanup_excess_keep_two(st, s, o) ==
    IF o = "ok" THEN [st EXCEPT ![s] = KeepNewest(@, MIN_DAILY_RECORDS - 1)] ELSE st

RECURSIVE KeepOldest(_, _)
\* rows without today's rows other than the n oldest of today.
KeepOldest(rows, n) ==
    IF rows = <<>> THEN <<>>
    ELSE LET first == rows[1]
             rest  == SubSeq(rows, 2, Len(rows))
         IN  IF first.day # now.day THEN << first >> \o KeepOldest(rest, n)
             ELSE IF n > 0 THEN << first >> \o KeepOldest(rest, n - 1)
             ELSE KeepOldest(rest, 0)

\* A cleanup whose subquery orders by created_at ascending.
cleanup_excess_keep_oldest(st, s, o) ==
    IF o = "ok" THEN [st EXCEPT ![s] = KeepOldest(@, MIN_DAILY_RECORDS)] ELSE st

\* The DELETE of cleanup_excess_daily_records: all of today's rows of the
\* station except the 3 newest.
cleanup_excess_daily_records(st, s, o) ==
    IF o = "ok" THEN [st EXCEPT ![s] = KeepNewest(@, MIN_DAILY_RECORDS)] ELSE st

(* ---------------------------------------------------------------------- *)
(* get_latest_weather_data                                                 *)
(* ---------------------------------------------------------------------- *)

\* A column value: <<>> is NULL, <<v>> a number.
OrDefault(col, default) ==
    IF col = <<>> THEN default ELSE col[1]

\* The parse of the precipitation payload.  kind is
\*   "empty"     a falsy payload: rainfall 0;
\*   "object"    a JSON object with numeric (or absent, 0) rainfall fields;
\*   "badjson"   text json.loads rejects (JSONDecodeError, caught: 0);
\*   "nonobject" JSON that is no object (AttributeError on .get, caught: 0);
\*   "badnumber" an object whose rainfall is no number (float() raises
\*               ValueError, which the inner except does not catch).
ParsePrecipitationStrict(p) ==
    IF p.kind = "object"
    THEN [raised |-> FALSE, rainfall_1h |-> p.rainfall_1h, rainfall_3h |-> p.rainfall_3h]
    ELSE IF p.kind = "empty"
    THEN [raised |-> FALSE, rainfall_1h |-> 0, rainfall_3h |-> 0]
    ELSE [raised |-> TRUE, rainfall_1h |-> 0, rainfall_3h |-> 0]

ParsePrecipitation(p) ==
    IF p.kind = "object"
    THEN [raised |-> FALSE, rainfall_1h |-> p.rainfall_1h, rainfall_3h |-> p.rainfall_3h]
    ELSE IF p.kind = "badnumber"
    THEN [raised |-> TRUE, rainfall_1h |-> 0, rainfall_3h |-> 0]
    ELSE [raised |-> FALSE, rainfall_1h |-> 0, rainfall_3h |-> 0]

\* get_latest_weather_data(location_name): row is the newest rainfall_data
\* row of the location (<<>> when there is none).  None is <<>>.
get_latest_weather_data(row, o) ==
    IF o # "ok" \/ row = <<>> THEN <<>>
    ELSE LET r == row[1]
             parsed == ParsePrecipitation(r.precipitation)
         IN  IF parsed.raised THEN <<>>
             ELSE << [temperature |-> OrDefault(r.temperature, 26000),
                      humidity    |-> OrDefault(r.humidity, 70000),
                      pressure    |-> OrDefault(r.pressure, 1013000),
                      wind_speed  |-> OrDefault(r.wind_speed, 10000),
                      rainfall_1h |-> parsed.rainfall_1h,
                      rainfall_3h |-> parsed.rainfall_3h] >>

(* ---------------------------------------------------------------------- *)
(* Inputs: clock readings, random draws, rainfall_data rows                *)
(* ---------------------------------------------------------------------- *)

\* The clock readings of the model, in time order (t).  day is the calendar
\* date as a day number.
ClockSeq ==
    << [t |-> 1, month |-> 3,  hour |-> 2, minute |-> 0,  day |-> 1],
       [t |-> 2, month |-> 3,  hour |-> 7, minute |-> 30, day |-> 1],
       [t |-> 3, month |-> 3,  hour |-> 2, minute |-> 0,  day |-> 2],
       [t |-> 4, month |-> 8,  hour |-> 7, minute |-> 30, day |-> 3] >>

Clocks ==
    {ClockSeq[i] : i \in 1..Len(ClockSeq)}

\* The variates of a call in which every draw is mid-range and no rare
\* event (dam release, mining, construction, erosion) fires.
Calm ==
    [u_def_season |-> 500, u_def_level |-> 500, u_syn_season |-> 500,
     e_syn_rain |-> 1000, u_syn_rain |-> 500, u_syn_r3 |-> 500,
     u_syn_hum |-> 500, u_syn_press |-> 500, u_syn_wind |-> 500,
     u_season |-> 500, u_daily |-> 500, u_tide_amp |-> 500,
     u_tide_rand |-> 500, u_dam_p |-> 500, u_dam |-> 500,
     u_mine_p |-> 500, u_mine |-> 500, u_cons_p |-> 500, u_cons |-> 500,
     u_ero_p |-> 500, u_ero |-> 500, u_sed |-> 500, u_decline |-> 500,
     u_vol |-> 500, u_mom |-> 500, u_noise |-> 500, u_flow |-> 500]

\* Heavy synthetic rain, erosion, top noise: the change saturates at +8.
Flood ==
    [Calm EXCEPT !.e_syn_rain = 3000, !.u_syn_rain = 999, !.u_ero_p = 0,
                 !.u_ero = 999, !.u_noise = 999, !.u_def_level = 999]

\* Mining, no rain, a dry seasonal draw, bottom noise: the change saturates
\* at -8.
Drought ==
    [Calm EXCEPT !.e_syn_rain = 0, !.u_mine_p = 0, !.u_mine = 999,
                 !.u_season = 0, !.u_sed = 0, !.u_decline = 999,
                 !.u_noise = 0, !.u_def_level = 13]

\* The seeds of the model: the variate record each fixes.
SeedSeq ==
    << Calm, Flood, Drought,
       [Calm EXCEPT !.e_syn_rain = 0, !.u_cons_p = 0, !.u_cons = 590,
                    !.u_noise = 416, !.u_def_season = 400],
       [Calm EXCEPT !.e_syn_rain = 0, !.u_sed = 0, !.u_decline = 999,
                    !.u_noise = 250, !.u_flow = 0] >>

Seeds ==
    1..Len(SeedSeq)

\* rainfall_data rows: the newest row of a location.
HeavyRain ==
    [temperature |-> <<24000>>, humidity |-> <<95000>>, pressure |-> <<985000>>,
     wind_speed |-> <<3000>>,
     precipitation |-> [kind |-> "object", rainfall_1h |-> 25000, rainfall_3h |-> 60000]]

NullColumns(kind) ==
    [temperature |-> <<>>, humidity |-> <<>>, pressure |-> <<>>, wind_speed |-> <<>>,
     precipitation |-> [kind |-> kind, rainfall_1h |-> 0, rainfall_3h |-> 0]]

\* What the newest-row query of get_latest_weather_data can find.
WeatherRows ==
    { <<>>, <<HeavyRain>>, <<NullColumns("object")>>, <<NullColumns("badjson")>>,
      <<NullColumns("nonobject")>>, <<NullColumns("badnumber")>> }

(* ---------------------------------------------------------------------- *)
(* One station cycle                                                       *)
(* ---------------------------------------------------------------------- *)

Stations ==
    1..Len(RIVER_STATIONS)

EmptyStore ==
    [s \in Stations |-> <<>>]

\* What is recorded of one simulate_river_level call.
CallEntry(s, prev_data, row, weather_data, seed, result) ==
    [station |-> s, prev_data |-> prev_data, row |-> row,
     weather_data |-> weather_data, seed |-> seed, clock |-> now,
     result |-> result]

\* One pass of main's loop body over station s on store st: weather
\* lookup, simulate_river_level, save_river_level_data, the recount and the
\* cleanup of excess rows, all store operations succeeding.  Yields the
\* store afterwards and the record of the simulate_river_level call.
StationCycle(st, s, row, seed) ==
    LET weather_data == get_latest_weather_data(row, "ok")
        prev_data    == get_previous_river_level(st, s, "ok")
        Persist(river_data) ==
            LET Tidy(saved) ==
                    IF check_daily_record_count(saved, s, "ok") > MIN_DAILY_RECORDS
                    THEN cleanup_excess_daily_records(saved, s, "ok")
                    ELSE saved
            IN  [store |-> At(Tidy, InsertRow(st, s, river_data,
                                              ReadId(st, s, "ok"))),
                 call  |-> CallEntry(s, prev_data, row, weather_data, seed,
                                     river_data)]
    IN  At(Persist, simulate_river_level(RIVER_STATIONS[s], prev_data,
                                         weather_data, SeedSeq[seed]))

RECURSIVE AfterCycles(_, _, _, _, _)
\* The store after n station cycles of s with the same row and seed.
AfterCycles(st, s, row, seed, n) ==
    IF n = 0 THEN st
    ELSE IF n = 1 THEN StationCycle(st, s, row, seed).store
    ELSE CHOOSE after \in { AfterCycles(half, s, row, seed, n - n \div 2) :
                              half \in {AfterCycles(st, s, row, seed, n \div 2)} } : TRUE

(* ---------------------------------------------------------------------- *)
(* Simulation study: the cycles of one station                             *)
(* ---------------------------------------------------------------------- *)

\* Cycles a simulation study runs after its start.
MaxCycles ==
    2

\* Cycles of steady flood (or drought) a study may start after: enough for
\* every station to come to rest.
WarmCycles ==
    70

\* The rows and seeds a simulation study draws from.
SimRows ==
    { <<>>, <<HeavyRain>> }

\* A study starts on an empty table, or after WarmCycles cycles of flood
\* (seed 2 under heavy rain) or of drought (seed 3, no weather row).
StartStores(s) ==
    { EmptyStore,
      AfterCycles(EmptyStore, s, <<HeavyRain>>, 2, WarmCycles),
      AfterCycles(EmptyStore, s, <<>>, 3, WarmCycles) }

SimCycle ==
    /\ focus \in Stations
    /\ cycles < MaxCycles
    /\ \E row \in SimRows, seed \in Seeds :
          \E c \in {StationCycle(store, focus, row, seed)} :
              /\ store' = c.store
              /\ lastCall' = << c.call >>
              /\ rainfall' = [rainfall EXCEPT ![focus] = row]
    /\ cycles' = cycles + 1
    /\ UNCHANGED << predictorVars, now, focus, driverVars >>

InitSim ==
    /\ now \in Clocks
    /\ focus \in Stations
    /\ store \in StartStores(focus)
    /\ rainfall = [s \in Stations |-> <<>>]
    /\ lastCall = <<>>
    /\ cycles = 0
    /\ missing = <<>>
    /\ driver = <<>>
    /\ conns = 0
    /\ faults = 0
    /\ PredictorIdle

NextSim ==
    SimCycle

SpecSim ==
    InitSim /\ [][NextSim]_vars

(* ---------------------------------------------------------------------- *)
(* Repeated calls: one weather lookup, then simulate_river_level called    *)
(* again on the same inputs                                                *)
(* ---------------------------------------------------------------------- *)

\* Calls of simulate_river_level in one behaviour.
MaxCalls ==
    2

\* The weather lookup for the station on some rainfall_data row, and
\* simulate_river_level on what it returns, under some seed.
FirstCall ==
    /\ lastCall = <<>>
    /\ \E row \in WeatherRows, seed \in Seeds :
          \E weather_data \in {get_latest_weather_data(row, "ok")},
             prev_data \in {get_previous_river_level(store, focus, "ok")} :
              /\ lastCall' = << CallEntry(focus, prev_data, row, weather_data, seed,
                                  simulate_river_level(RIVER_STATIONS[focus],
                                      prev_data, weather_data, SeedSeq[seed])) >>
              /\ rainfall' = [rainfall EXCEPT ![focus] = row]
    /\ UNCHANGED << predictorVars, now, store, focus, cycles, driverVars >>

\* simulate_river_level again: the same station, weather sample and seed,
\* nothing saved in between.
RepeatCall ==
    /\ lastCall # <<>>
    /\ Len(lastCall) < MaxCalls
    /\ \E prev_data \in {get_previous_river_level(store, focus, "ok")} :
          lastCall' = Append(lastCall,
              CallEntry(focus, prev_data, lastCall[1].row,
                        lastCall[1].weather_data, lastCall[1].seed,
                        simulate_river_level(RIVER_STATIONS[focus], prev_data,
                            lastCall[1].weather_data,
                            SeedSeq[lastCall[1].seed])))
    /\ UNCHANGED << predictorVars, now, store, rainfall, focus, cycles, driverVars >>

\* Time passes: the clock shows a later reading.
Tick ==
    /\ \E c \in Clocks :
          /\ c.t > now.t
          /\ now' = c
    /\ UNCHANGED << predictorVars, store, rainfall, studyVars, driverVars >>

NextCall ==
    FirstCall \/ RepeatCall \/ Tick

SpecCall ==
    InitSim /\ [][NextCall]_vars

(* ---------------------------------------------------------------------- *)
(* check_and_cleanup_database                                              *)
(* ---------------------------------------------------------------------- *)

\* MAX_RECORDS of check_and_cleanup_database.
MAX_RECORDS ==
    2000

\* SELECT COUNT(*) FROM river_level_data.
TotalRows(st) ==
    Cardinality(UNION {{st[s][i].id : i \in 1..Len(st[s])} : s \in DOMAIN st})

\* rows without those older than 30 days that are not among the 3 newest of
\* their station and day.
PurgeOld(rows) ==
    LET Kept(row) ==
            ~ /\ now.day - row.day > 30
              /\ Cardinality({j \in 1..Len(rows) :
                                 /\ rows[j].day = row.day
                                 /\ rows[j].id > row.id}) >= 3
    IN  SelectSeq(rows, Kept)

\* check_and_cleanup_database(): the table afterwards.
check_and_cleanup_database(st, o) ==
    IF o = "ok" /\ TotalRows(st) > MAX_RECORDS
    THEN [s \in DOMAIN st |-> PurgeOld(st[s])]
    ELSE st

(* ---------------------------------------------------------------------- *)
(* main: one run of the driver                                             *)
(* ---------------------------------------------------------------------- *)

\* The stations a run iterates over: the first NumStations of the registry.
NumStations ==
    2

\* Store operations that may fail in one behaviour.
MaxFaults ==
    1

DriverStations ==
    1..NumStations

\* The keys of a station dict.
Fields ==
    {"location_name", "river_name", "latitude", "longitude", "normal_level",
     "alert_level_1", "alert_level_2", "alert_level_3", "base_flow_rate",
     "seasonal_factor", "tidal_effect", "dam_controlled", "volatility"}

\* station[field] succeeds (otherwise it raises KeyError).
Has(s, field) ==
    missing # << s, field >>

\* The keys simulate_river_level and the functions it calls read.
SimReads ==
    {"tidal_effect", "normal_level", "dam_controlled", "volatility",
     "alert_level_3", "base_flow_rate"}

\* The alert level main derives from the water level (0: normal).
AlertLevel(station, water_level) ==
    IF water_level >= station.alert_level_3 * 1000 THEN 3
    ELSE IF water_level >= station.alert_level_2 * 1000 THEN 2
    ELSE IF water_level >= station.alert_level_1 * 1000 THEN 1
    ELSE 0

\* The keys main's result and alert prints read, given the water level.
AlertReads(station, water_level) ==
    {"normal_level", "alert_level_3"}
    \cup (IF AlertLevel(station, water_level) < 3 THEN {"alert_level_2"} ELSE {})
    \cup (IF AlertLevel(station, water_level) < 2 THEN {"alert_level_1"} ELSE {})

\* The keys the values tuple of save_river_level_data reads.
SaveReads ==
    {"location_name", "river_name", "latitude", "longitude", "normal_level",
     "alert_level_1", "alert_level_2", "alert_level_3"}

\* A store operation may fail while the fault budget lasts.
Allowed(o) ==
    o = "ok" \/ faults < MaxFaults

Faulty(o) ==
    IF o = "ok" THEN 0 ELSE 1

\* The log lines a store operation of station i ending with o prints.
StoreLog(i, o) ==
    IF o = "ok" THEN {} ELSE {<< i, o >>}

\* A run of main about to start; seed fixes the draws of its cycles, and
\* appended lists the stations whose INSERT took effect, in order.
StartRun(seed) ==
    [pc |-> "start", i |-> 0, daily_count |-> 0, weather_data |-> <<>>,
     river_data |-> <<>>, pred |-> 0, alert_level |-> 0, new_count |-> 0,
     success_count |-> 0, seed |-> seed, visited |-> {}, log |-> {},
     appended |-> <<>>]

\* A save that fails ends the whole run.
AfterSaveFatal(saved) ==
    IF saved THEN "recount" ELSE "aborted"

\* Where main goes after save_river_level_data returned saved.
AfterSave(saved) ==
    IF saved THEN "recount" ELSE "delay"

\* "check_and_cleanup_database()": its result is not looked at.
CheckAndCleanup(r) ==
    /\ driver[r].pc = "start"
    /\ \E o \in Outcomes :
          /\ Allowed(o)
          /\ store' = check_and_cleanup_database(store, o)
          /\ conns' = conns + Leaked(o)
          /\ faults' = faults + Faulty(o)
          /\ driver' = [driver EXCEPT ![r].pc = "probe",
                                      ![r].log = @ \cup StoreLog(0, o)]
    /\ UNCHANGED << predictorVars, now, rainfall, studyVars, missing >>

\* The connection probe: get_connection, then close_connection, or the
\* return out of main when there is no connection.
Probe(r) ==
    /\ driver[r].pc = "probe"
    /\ \E o \in {"ok", "noconn"} :
          /\ Allowed(o)
          /\ faults' = faults + Faulty(o)
          /\ driver' = [driver EXCEPT
                          ![r].pc = IF o = "ok" THEN "head" ELSE "aborted",
                          ![r].i = IF o = "ok" THEN 1 ELSE 0,
                          ![r].log = @ \cup StoreLog(0, o)]
    /\ UNCHANGED << predictorVars, now, store, rainfall, studyVars, missing, conns >>

\* The head of the loop body: the "Processing" print, which reads
\* location_name and river_name outside the try, and the count of today's
\* rows.  A KeyError here leaves main.
LoopHead(r) ==
    /\ driver[r].pc = "head"
    /\ driver[r].i <= NumStations
    /\ \E o \in Outcomes :
          LET i == driver[r].i
              keyError == ~Has(i, "location_name") \/ ~Has(i, "river_name")
          IN  /\ Allowed(o)
              /\ keyError => o = "ok"
              /\ conns' = conns + (IF keyError THEN 0 ELSE Leaked(o))
              /\ faults' = faults + Faulty(o)
              /\ driver' =
                   IF keyError
                   THEN [driver EXCEPT ![r].pc = "crashed"]
                   ELSE [driver EXCEPT
                           ![r].pc = "weather",
                           ![r].visited = @ \cup {i},
                           ![r].daily_count = check_daily_record_count(store, i, o),
                           ![r].log = @ \cup StoreLog(i, o)]
    /\ UNCHANGED << predictorVars, now, store, rainfall, studyVars, missing >>

\* "weather_data = get_latest_weather_data(station['location_name'])".
Weather(r) ==
    /\ driver[r].pc = "weather"
    /\ \E o \in Outcomes :
          LET i == driver[r].i
          IN  /\ Allowed(o)
              /\ conns' = conns + Leaked(o)
              /\ faults' = faults + Faulty(o)
              /\ driver' = [driver EXCEPT
                              ![r].pc = "simulate",
                              ![r].weather_data =
                                  get_latest_weather_data(rainfall[i], o),
                              ![r].log = @ \cup StoreLog(i, o)]
    /\ UNCHANGED << predictorVars, now, store, rainfall, studyVars, missing >>

\* "river_data = simulate_river_level(station, weather_data)", which reads
\* the previous level first, and the result and alert prints.  A KeyError
\* is caught by the except of the loop body: the station is given up.
Simulate(r) ==
    /\ driver[r].pc = "simulate"
    /\ \E o \in Outcomes :
          \E river \in {simulate_river_level(
                             RIVER_STATIONS[driver[r].i],
                             get_previous_river_level(store, driver[r].i, o),
                             driver[r].weather_data, SeedSeq[driver[r].seed])} :
          LET i == driver[r].i
              keyError ==
                  \/ \E f \in SimReads : ~Has(i, f)
                  \/ \E f \in AlertReads(RIVER_STATIONS[i], river.water_level) :
                        ~Has(i, f)
          IN  /\ Allowed(o)
              /\ conns' = conns + Leaked(o)
              /\ faults' = faults + Faulty(o)
              /\ driver' =
                   IF keyError
                   THEN [driver EXCEPT
                           ![r].pc = "delay",
                           ![r].log = @ \cup StoreLog(i, o)
                                        \cup {<< i, "Error processing" >>}]
                   ELSE [driver EXCEPT
                           ![r].pc = "save",
                           ![r].river_data = << river >>,
                           ![r].pred = ReadId(store, i, o),
                           ![r].alert_level =
                               AlertLevel(RIVER_STATIONS[i], river.water_level),
                           ![r].log = @ \cup StoreLog(i, o)]
    /\ UNCHANGED << predictorVars, now, store, rainfall, studyVars, missing >>

\* "saved = save_river_level_data(station, river_data)" and the branch on
\* it.  A KeyError in the values tuple is raised after the connection was
\* opened and is caught by the except of save_river_level_data.
Save(r) ==
    /\ driver[r].pc = "save"
    /\ \E o \in SaveOutcomes :
          LET i == driver[r].i
              keyError == \E f \in SaveReads : ~Has(i, f)
              saved == o = "ok" /\ ~keyError
              inserted == saved \/ o = "late"
          IN  /\ Allowed(o)
              /\ keyError => o # "late"
              /\ store' = IF inserted
                          THEN InsertRow(store, i, driver[r].river_data[1],
                                         driver[r].pred)
                          ELSE store
              /\ conns' = conns + (IF o = "ok" /\ keyError THEN 1 ELSE Leaked(o))
              /\ faults' = faults + Faulty(o)
              /\ driver' = [driver EXCEPT
                              ![r].pc = AfterSave(saved),
                              ![r].success_count = IF saved THEN @ + 1 ELSE @,
                              ![r].appended = IF inserted THEN Append(@, i)
                                              ELSE @,
                              ![r].log = @ \cup StoreLog(i, o) \cup
                                  (IF saved THEN {}
                                   ELSE {<< i, "Failed to save data" >>})]
    /\ UNCHANGED << predictorVars, now, rainfall, studyVars, missing >>

\* "new_count = check_daily_record_count(...)" after a save.
Recount(r) ==
    /\ driver[r].pc = "recount"
    /\ \E o \in Outcomes :
          LET i == driver[r].i
              new_count == check_daily_record_count(store, i, o)
          IN  /\ Allowed(o)
              /\ conns' = conns + Leaked(o)
              /\ faults' = faults + Faulty(o)
              /\ driver' = [driver EXCEPT
                              ![r].pc = IF new_count > MIN_DAILY_RECORDS
                                        THEN "cleanup" ELSE "delay",
                              ![r].new_count = new_count,
                              ![r].log = @ \cup StoreLog(i, o)]
    /\ UNCHANGED << predictorVars, now, store, rainfall, studyVars, missing >>

\* "cleanup_excess_daily_records(...)" when more than MIN_DAILY_RECORDS rows
\* were counted.
Cleanup(r) ==
    /\ driver[r].pc = "cleanup"
    /\ \E o \in Outcomes :
          LET i == driver[r].i
          IN  /\ Allowed(o)
              /\ store' = cleanup_excess_daily_records(store, i, o)
              /\ conns' = conns + Leaked(o)
              /\ faults' = faults + Faulty(o)
              /\ driver' = [driver EXCEPT ![r].pc = "delay",
                                          ![r].log = @ \cup StoreLog(i, o)]
    /\ UNCHANGED << predictorVars, now, rainfall, studyVars, missing >>

\* "time.sleep(delay)" at the end of the loop body, and the step to the
\* next station; the clock may move on to its next reading meanwhile.
Delay(r) ==
    /\ driver[r].pc = "delay"
    /\ \E c \in Clocks :
          /\ c = now \/ c.t = now.t + 1
          /\ now' = c
    /\ driver' = [driver EXCEPT ![r].pc = "head", ![r].i = @ + 1,
                                ![r].weather_data = <<>>,
                                ![r].river_data = <<>>, ![r].pred = 0]
    /\ UNCHANGED << predictorVars, store, rainfall, studyVars, missing, conns, faults >>

\* The loop is exhausted: the completion prints.
Complete(r) ==
    /\ driver[r].pc = "head"
    /\ driver[r].i > NumStations
    /\ driver' = [driver EXCEPT ![r].pc = "done"]
    /\ UNCHANGED << predictorVars, now, store, rainfall, studyVars, missing, conns, faults >>

\* The seeds and rainfall rows of the driver's behaviours.
DriverSeeds ==
    {1, 2}

DriverRows ==
    { <<>>, <<HeavyRain>> }

RECURSIVE AfterBatches(_, _, _)
\* The table after n earlier cycles of each of the stations s..NumStations.
AfterBatches(st, s, n) ==
    IF s > NumStations THEN st
    ELSE AfterBatches(AfterCycles(st, s, <<>>, 1, n), s + 1, n)

\* A run starts on an empty table or on one that holds MIN_DAILY_RECORDS
\* rows of today for each station.
DriverStores ==
    { EmptyStore, AfterBatches(EmptyStore, 1, MIN_DAILY_RECORDS) }

\* The start of the runs in the set runs at clock reading clock, the
\* registry lacking one of the keys in configs (<<>>: none), after failed
\* store operations had already failed.
InitDriver(runs, configs, clock, failed) ==
    /\ now = clock
    /\ store \in DriverStores
    /\ rainfall \in {[s \in Stations |-> IF s \in DriverStations THEN f[s] ELSE <<>>] :
                       f \in [DriverStations -> DriverRows]}
    /\ lastCall = <<>>
    /\ focus = 0
    /\ cycles = 0
    /\ missing \in configs
    /\ driver \in [runs -> {StartRun(seed) : seed \in DriverSeeds}]
    /\ conns = 0
    /\ faults = failed
    /\ PredictorIdle

Init ==
    InitDriver({1}, {<<>>}, ClockSeq[1], 0)

Next ==
    \/ \E r \in DOMAIN driver : CheckAndCleanup(r)
    \/ \E r \in DOMAIN driver : Probe(r)
    \/ \E r \in DOMAIN driver : LoopHead(r)
    \/ \E r \in DOMAIN driver : Weather(r)
    \/ \E r \in DOMAIN driver : Simulate(r)
    \/ \E r \in DOMAIN driver : Save(r)
    \/ \E r \in DOMAIN driver : Recount(r)
    \/ \E r \in DOMAIN driver : Cleanup(r)
    \/ \E r \in DOMAIN driver : Delay(r)
    \/ \E r \in DOMAIN driver : Complete(r)

Spec ==
    Init /\ [][Next]_vars

\* Two runs of main at once, as when a scheduled run starts before the
\* previous one has ended; the store does not fail and the clock stays at
\* its last reading.
InitRace ==
    InitDriver({1, 2}, {<<>>}, ClockSeq[Len(ClockSeq)], MaxFaults)

SpecRace ==
    InitRace /\ [][Next]_vars

\* One run over a registry in which one station dict lacks one key.
InitCfg ==
    InitDriver({1}, {<< s, f >> : s \in DriverStations, f \in Fields},
               ClockSeq[1], 0)

SpecCfg ==
    InitCfg /\ [][Next]_vars

(* ---------------------------------------------------------------------- *)
(* Properties of simulate_river_level                                      *)
(* ---------------------------------------------------------------------- *)

\* The simulate_river_level calls on record.
Calls ==
    {lastCall[i] : i \in 1..Len(lastCall)}

\* water_level returned minus the previous level the call worked from.
ReturnedDelta(c) ==
    c.result.water_level - c.result.prev_level

\* C1: after any sequence of cycles the water level a call returns, and so
\* every row persisted, lies within 0.3 * normal_level and
\* 1.2 * alert_level_3 of its station.
C1_LevelWithinBounds ==
    /\ \A c \in Calls :
          /\ MinLevel(RIVER_STATIONS[c.station]) <= c.result.water_level
          /\ c.result.water_level <= MaxLevel(RIVER_STATIONS[c.station])
    /\ \A s \in Stations : \A i \in 1..Len(store[s]) :
          /\ MinLevel(RIVER_STATIONS[s]) <= store[s][i].water_level
          /\ store[s][i].water_level <= MaxLevel(RIVER_STATIONS[s])

\* C1 witness: a call whose level before the clamp was below the lower
\* bound and that returned the lower bound.
C1_Witness ==
    \E c \in Calls :
        /\ c.result.raw_level < MinLevel(RIVER_STATIONS[c.station])
        /\ c.result.water_level = MinLevel(RIVER_STATIONS[c.station])
        /\ store[c.station] # <<>>

\* The upper bound is met as well: a call cut down to 1.2 * alert_level_3.
UpperClampReached ==
    \E c \in Calls :
        /\ c.result.raw_level > MaxLevel(RIVER_STATIONS[c.station])
        /\ c.result.water_level = MaxLevel(RIVER_STATIONS[c.station])

\* C2 (as stated): the water level returned differs from the previous
\* level by at most 9 cm.
C2_Original ==
    \A c \in Calls : Abs(ReturnedDelta(c)) <= 9000

\* C2 (amended): before the rounding to two decimals the new level differs
\* from the previous level by at most 9 cm; the level returned differs by
\* at most 9 cm from a previous level read from the table, and by at most
\* 9.005 cm from the seeded default used when the station has no history.
C2_ChangeBounded ==
    \A c \in Calls :
        /\ Abs(c.result.new_level - c.result.prev_level) <= 9000
        /\ c.prev_data # <<>> => Abs(ReturnedDelta(c)) <= 9000
        /\ c.prev_data = <<>> => Abs(ReturnedDelta(c)) <= 9005

\* C2 witness: a call without history whose change was cut to the cap and
\* whose returned level is more than 9 cm from the seeded default.
C2_Witness ==
    \E c \in Calls :
        /\ c.prev_data = <<>>
        /\ Abs(c.result.raw_level - c.result.prev_level) > 8000
        /\ Abs(ReturnedDelta(c)) > 9000

\* C3 (as stated): trend is 'rising' iff the water level returned minus the
\* previous level exceeds 2 cm, 'falling' iff it is below -2 cm, 'stable'
\* otherwise.
C3_Original ==
    \A c \in Calls :
        /\ c.result.trend = "rising" <=> ReturnedDelta(c) > 2000
        /\ c.result.trend = "falling" <=> ReturnedDelta(c) < -2000
        /\ c.result.trend \in {"rising", "falling", "stable"}

\* C3 (amended): trend is 'rising' iff the new level before its rounding to
\* two decimals exceeds the previous level by more than 2 cm, 'falling'
\* iff it is more than 2 cm below, 'stable' otherwise; the level returned
\* is within 0.005 cm of that level.
C3_TrendThresholds ==
    \A c \in Calls :
        LET delta == c.result.new_level - c.result.prev_level
        IN  /\ c.result.trend = "rising" <=> delta > 2000
            /\ c.result.trend = "falling" <=> delta < -2000
            /\ c.result.trend \in {"rising", "falling", "stable"}
            /\ Abs(c.result.water_level - c.result.new_level) <= 5

\* C3 witness: a call that reports a trend other than 'stable' although
\* the level it returns is exactly 2 cm from the previous one.
C3_Witness ==
    \E c \in Calls :
        /\ c.result.trend # "stable"
        /\ Abs(ReturnedDelta(c)) = 2000

\* C4 (as stated): the trend is derived from the delta before the clamp
\* into the bounds.
C4_Original ==
    \A c \in Calls :
        c.result.trend = Trend(c.result.raw_level - c.result.prev_level)

\* C4 (amended): the trend is derived from the delta after the clamp into
\* the bounds (the clamped level minus the previous level).
C4_TrendFromClampedDelta ==
    \A c \in Calls :
        c.result.trend = Trend(ClampLevel(RIVER_STATIONS[c.station],
                                          c.result.raw_level)
                               - c.result.prev_level)

\* C4 witness: a call cut by the clamp whose trend differs from the one the
\* unclamped delta would give.
C4_Witness ==
    \E c \in Calls :
        /\ c.result.raw_level # c.result.new_level
        /\ c.result.trend # Trend(c.result.raw_level - c.result.prev_level)

\* The payload kinds that cannot be parsed into rainfall figures.
Unparseable ==
    {"badjson", "nonobject", "badnumber"}

\* The calls whose weather lookup found a row with an unparseable payload.
UnparseableCalls ==
    {c \in Calls : c.row # <<>> /\ c.row[1].precipitation.kind \in Unparseable}

Returned(c) ==
    << c.result.water_level, c.result.flow_rate, c.result.trend >>

SameInputs(a, b) ==
    /\ a.station = b.station
    /\ a.prev_data = b.prev_data
    /\ a.weather_data = b.weather_data
    /\ a.seed = b.seed

\* C10 (as stated): two calls with the same station, previous record,
\* weather sample and seed return identical records; nothing else
\* influences the result.
C10_Original ==
    \A a, b \in Calls : SameInputs(a, b) => Returned(a) = Returned(b)

\* C10 (amended): two calls with the same station, previous record, weather
\* sample and seed return identical records provided the clock shows the
\* same month, hour and minute at both; the date otherwise has no
\* influence.
C10_DeterministicGivenClock ==
    \A a, b \in Calls :
        /\ SameInputs(a, b)
        /\ a.clock.month = b.clock.month
        /\ a.clock.hour = b.clock.hour
        /\ a.clock.minute = b.clock.minute
        => Returned(a) = Returned(b)

\* C10 witness: the same call made on two different days at the same time
\* of day, at a tidal station, with the same record returned.
C10_Witness ==
    \E i, j \in 1..Len(lastCall) :
        /\ i < j
        /\ SameInputs(lastCall[i], lastCall[j])
        /\ lastCall[i].clock.day # lastCall[j].clock.day
        /\ lastCall[i].clock.hour = lastCall[j].clock.hour
        /\ RIVER_STATIONS[lastCall[i].station].tidal_effect
        /\ Abs(lastCall[i].result.raw_level - lastCall[i].result.prev_level) < 8000
        /\ Returned(lastCall[i]) = Returned(lastCall[j])

(* ---------------------------------------------------------------------- *)
(* Properties of the driver                                                *)
(* ---------------------------------------------------------------------- *)

\* The positions of a run inside the loop over the stations.
InLoop ==
    {"head", "weather", "simulate", "save", "recount", "cleanup", "delay"}

\* C5: the simulate-then-persist cycle takes no lock and makes no check
\* that the record it read is still the newest: a save that succeeds
\* appends the run's record, computed from the record the run read,
\* whatever another run has appended in between.
C5_SaveAppendsUnconditionally ==
    [][\A r \in DOMAIN driver :
          driver[r].pc = "save" /\ driver'[r].pc = "recount"
          => LET i == driver[r].i
                 appended == store'[i][Len(store'[i])]
             IN  /\ Len(store'[i]) = Len(store[i]) + 1
                 /\ appended.pred = driver[r].pred
                 /\ appended.water_level = driver[r].river_data[1].water_level]_vars

\* C5 witness: a station holds two records computed from the same
\* persisted predecessor, which two concurrent runs both read as the last
\* record.
C5_Witness ==
    \E s \in DriverStations : \E i, j \in 1..Len(store[s]) :
        /\ i < j
        /\ store[s][i].pred # 0
        /\ store[s][i].pred = store[s][j].pred

\* C6: no store operation returns while the connection it acquired is
\* still open, also when its query raised.
C6_ConnectionsReleased ==
    conns = 0

\* C7 (as stated): a store connectivity failure never aborts the batch: a
\* run is never cut short, and a run that ended has gone to every station.
C7_Original ==
    \A r \in DOMAIN driver :
        /\ driver[r].pc # "aborted"
        /\ driver[r].pc = "done" => driver[r].visited = DriverStations

\* C7 (amended): a connectivity failure aborts the batch only at the
\* connection probe before the loop, where main returns without processing
\* any station.  Once the probe has passed, a failing store operation is
\* logged and gives up at most the current station: the run goes through
\* the stations in order and ends having gone to every one.
C7_BatchSurvivesAfterProbe ==
    \A r \in DOMAIN driver :
        /\ driver[r].pc = "aborted"
           => driver[r].visited = {} /\ << 0, "noconn" >> \in driver[r].log
        /\ driver[r].pc \in InLoop \ {"head"} => driver[r].visited = 1..driver[r].i
        /\ driver[r].pc = "head" => driver[r].visited = 1..(driver[r].i - 1)
        /\ driver[r].pc = "done" => driver[r].visited = DriverStations
        /\ driver[r].pc # "crashed"
        /\ faults > 0 => \E q \in DOMAIN driver : driver[q].log # {}

\* C7 witness: a run ended after a store operation failed inside the loop,
\* having gone to every station.
C7_Witness ==
    \E r \in DOMAIN driver :
        /\ driver[r].pc = "done"
        /\ driver[r].visited = DriverStations
        /\ \E e \in driver[r].log : e[1] = 1 /\ e[2] \in {"noconn", "raise"}

\* C8: a station dict that lacks a key is skipped with a logged message and
\* the other stations are processed; it is never fatal to the run.
C8_MissingFieldNeverFatal ==
    \A r \in DOMAIN driver :
        /\ driver[r].pc # "crashed"
        /\ driver[r].pc = "done" /\ missing # <<>>
           => /\ driver[r].visited = DriverStations
              /\ \E e \in driver[r].log : e[1] = missing[1]

\* The ids of the rows persisted for station s in table st.
RowIds(st, s) ==
    {st[s][i].id : i \in 1..Len(st[s])}

\* The rows of rows that are of the same day as row and newer than it.
NewerSameDay(rows, row) ==
    {k \in 1..Len(rows) : rows[k].day = row.day /\ rows[k].id > row.id}

CrawlerIdle ==
    /\ now = ClockSeq[1]
    /\ store = EmptyStore
    /\ rainfall = [s \in Stations |-> <<>>]
    /\ lastCall = <<>>
    /\ focus = 0
    /\ cycles = 0
    /\ missing = <<>>
    /\ driver = <<>>
    /\ conns = 0
    /\ faults = 0

\* A numeric alert level without the guards on the shift and without the
\* final clamp.
calculate_alert_level_unguarded(water_level, risk_level) ==
    LET base_level == IF water_level < 180000 THEN 1
                      ELSE IF water_level < 220000 THEN 2
                      ELSE 3
    IN  IF risk_level = "HIGH" THEN base_level + 1
        ELSE IF risk_level = "LOW" THEN base_level - 1
        ELSE base_level

\* A numeric alert level whose base level is taken at the thresholds 220
\* and 270.
calculate_alert_level_shifted(water_level, risk_level) ==
    LET base_level == IF water_level < 220000 THEN 1
                      ELSE IF water_level < 270000 THEN 2
                      ELSE 3
        adjusted   == IF risk_level = "HIGH" /\ base_level < 3 THEN base_level + 1
                      ELSE IF risk_level = "LOW" /\ base_level > 1 THEN base_level - 1
                      ELSE base_level
    IN  Max2(1, Min2(3, adjusted))

\* calculate_alert_level_numeric(water_level, risk_level); water_level in
\* thousandths of a cm.
calculate_alert_level_numeric(water_level, risk_level) ==
    LET base_level == IF water_level < 180000 THEN 1
                      ELSE IF water_level < 220000 THEN 2
                      ELSE 3
        adjusted   == IF risk_level = "HIGH" /\ base_level < 3 THEN base_level + 1
                      ELSE IF risk_level = "LOW" /\ base_level > 1 THEN base_level - 1
                      ELSE base_level
    IN  Max2(1, Min2(3, adjusted))

\* The water levels entered on the screen (thousandths of a cm): both
\* sides of 180, 220 and 270, and the ends of the range.
ScreenLevels ==
    {0, 120000, 179990, 180000, 180010, 200000, 219990, 220000, 220010,
     240000, 269990, 270000, 270010, 320000}

\* The risk labels of a result: those of predict_flood_risk, and one that
\* is none of them.
RiskLabels ==
    {"LOW", "MODERATE", "HIGH", "SAFE"}

\* Results the screen displays in one behaviour.
MaxShown ==
    2

\* display_prediction_result(result, input_data): the alert level computed
\* from input_data's water_level and result's risk_level.
DisplayResult ==
    /\ Len(shown) < MaxShown
    /\ \E water_level \in ScreenLevels, risk_level \in RiskLabels :
          shown' = Append(shown,
                     [water_level |-> water_level,
                      risk_level  |-> risk_level,
                      alert_level |-> calculate_alert_level_numeric(
                                          water_level, risk_level)])
    /\ UNCHANGED << crawlerVars, df, predictor, trained, call, gui >>

InitScreen ==
    /\ CrawlerIdle
    /\ PredictorIdle

NextScreen ==
    DisplayResult

SpecScreen ==
    InitScreen /\ [][NextScreen]_vars

\* C12: the numeric alert level is always 1, 2 or 3, and for a fixed risk
\* level it never decreases when the water level increases.
C12_AlertLevelRangeAndMonotonic ==
    /\ \A i \in 1..Len(shown) : shown[i].alert_level \in {1, 2, 3}
    /\ \A i, j \in 1..Len(shown) :
          /\ shown[i].risk_level = shown[j].risk_level
          /\ shown[i].water_level <= shown[j].water_level
          => shown[i].alert_level <= shown[j].alert_level

\* C12 witness: two results of risk level HIGH were displayed, the second
\* at a higher water level and with a higher alert level than the first.
C12_Witness ==
    /\ Len(shown) = 2
    /\ shown[1].risk_level = "HIGH" /\ shown[2].risk_level = "HIGH"
    /\ shown[1].water_level < shown[2].water_level
    /\ shown[1].alert_level = 2 /\ shown[2].alert_level = 3

\* C13: the numeric alert level equals the reference mapping: base 1 below
\* 180 cm, 2 from 180 cm and below 220 cm, 3 from 220 cm; one more for HIGH
\* unless the base is 3, one less for LOW unless the base is 1, the base
\* itself for every other risk level.
C13_AlertLevelReference ==
    \A i \in 1..Len(shown) :
        LET w == shown[i].water_level
            r == shown[i].risk_level
        IN  shown[i].alert_level =
                CASE r = "HIGH" -> (IF w < 180000 THEN 2 ELSE 3)
                  [] r = "LOW"  -> (IF w < 220000 THEN 1 ELSE 2)
                  [] OTHER      -> (IF w < 180000 THEN 1
                                    ELSE IF w < 220000 THEN 2 ELSE 3)

\* C13 witness: the screen displayed a LOW result at exactly 220 cm with
\* alert level 2 and a HIGH result just below 180 cm with alert level 2.
C13_Witness ==
    /\ Len(shown) = 2
    /\ shown[1] = [water_level |-> 220000, risk_level |-> "LOW", alert_level |-> 2]
    /\ shown[2] = [water_level |-> 179990, risk_level |-> "HIGH", alert_level |-> 2]

(* ---------------------------------------------------------------------- *)
(* The sample table and create_flood_labels (src/predictor.py)             *)
(*                                                                         *)
(* A table is [columns, rows]: columns is the set of its column names,     *)
(* rows a sequence of groups [row, n], n equal rows whose values are the   *)
(* function row from the columns to numbers.  Rainfall, humidity, pressure *)
(* and wind are in thousandths of the code's unit, water_level_ratio in    *)
(* thousandths; the text columns (location_name, river_name, created_at)   *)
(* are read by none of the operations below and are left out.              *)
(* ---------------------------------------------------------------------- *)

\* The weather columns of load_data_from_db, and the columns
\* load_combined_data adds to them.
WeatherColumns ==
    {"temperature", "humidity", "pressure", "rainfall_1h", "rainfall_3h",
     "wind_speed"}

RiverColumns ==
    {"water_level", "water_level_ratio", "flow_rate_normal",
     "alert_level_exceeded", "trend_rising", "trend_falling"}

\* The two label columns.
LabelColumns ==
    {"flood_risk_level", "flood_risk"}

\* len(df).
FrameLen(frame) ==
    LET RECURSIVE Sum(_)
        Sum(k) == IF k = 0 THEN 0 ELSE frame.rows[k].n + Sum(k - 1)
    IN  Sum(Len(frame.rows))

\* df[column] = F(row), row by row.
WithColumn(frame, column, F(_)) ==
    [columns |-> frame.columns \cup {column},
     rows    |-> [k \in DOMAIN frame.rows |->
                    [frame.rows[k] EXCEPT
                        !.row = (column :> F(frame.rows[k].row)) @@ @]]]

\* The first of the columns reads, in order, that the table lacks (0: none):
\* reading it raises KeyError.
FirstMissing(reads, columns) ==
    LET absent == {k \in 1..Len(reads) : reads[k] \notin columns}
    IN  IF absent = {} THEN 0
        ELSE CHOOSE k \in absent : \A j \in absent : k <= j

\* The columns the advanced rules read, in the order they read them.
AdvancedReads ==
    << "rainfall_1h", "rainfall_3h", "alert_level_exceeded",
       "water_level_ratio", "trend_rising", "humidity", "pressure" >>

\* High conditions that lack the alert-level condition.
high_conditions_no_alert(row) ==
    \/ row["rainfall_1h"] > 20000
    \/ row["rainfall_3h"] > 45000
    \/ row["water_level_ratio"] > 1500 /\ row["trend_rising"] = 1
    \/ row["rainfall_1h"] > 15000 /\ row["alert_level_exceeded"] >= 2
    \/ row["humidity"] > 90000 /\ row["pressure"] < 1000000
                               /\ row["rainfall_1h"] > 10000

\* high_conditions of create_flood_labels.
high_conditions(row) ==
    \/ row["rainfall_1h"] > 20000
    \/ row["rainfall_3h"] > 45000
    \/ row["alert_level_exceeded"] >= 3
    \/ row["water_level_ratio"] > 1500 /\ row["trend_rising"] = 1
    \/ row["rainfall_1h"] > 15000 /\ row["alert_level_exceeded"] >= 2
    \/ row["humidity"] > 90000 /\ row["pressure"] < 1000000
                               /\ row["rainfall_1h"] > 10000

\* Moderate conditions whose humidity condition joins its two tests by "or".
moderate_conditions_or(row) ==
    \/ row["rainfall_1h"] > 10000 /\ row["rainfall_1h"] <= 20000
    \/ row["rainfall_3h"] > 25000 /\ row["rainfall_3h"] <= 45000
    \/ row["alert_level_exceeded"] = 2
    \/ row["alert_level_exceeded"] = 1 /\ row["trend_rising"] = 1
    \/ row["water_level_ratio"] > 1200 /\ row["water_level_ratio"] <= 1500
    \/ row["humidity"] > 85000 \/ row["rainfall_1h"] > 5000
    \/ row["pressure"] < 1005000 /\ row["rainfall_1h"] > 8000

\* moderate_conditions of create_flood_labels.
moderate_conditions(row) ==
    \/ row["rainfall_1h"] > 10000 /\ row["rainfall_1h"] <= 20000
    \/ row["rainfall_3h"] > 25000 /\ row["rainfall_3h"] <= 45000
    \/ row["alert_level_exceeded"] = 2
    \/ row["alert_level_exceeded"] = 1 /\ row["trend_rising"] = 1
    \/ row["water_level_ratio"] > 1200 /\ row["water_level_ratio"] <= 1500
    \/ row["humidity"] > 85000 /\ row["rainfall_1h"] > 5000
    \/ row["pressure"] < 1005000 /\ row["rainfall_1h"] > 8000

\* Labels applied in the other order: the moderate label last, over a high
\* one.
AdvancedLabelModerateLast(row) ==
    LET high  == IF high_conditions(row) THEN 2 ELSE 0
    IN  IF moderate_conditions(row) THEN 1 ELSE high

\* The label of a row in advanced mode: 0, then 2 where high_conditions,
\* then 1 where moderate_conditions and the label is not 2.
AdvancedLabel(row) ==
    LET high  == IF high_conditions(row) THEN 2 ELSE 0
    IN  IF moderate_conditions(row) /\ high # 2 THEN 1 ELSE high

\* The columns each of the five basic rules reads, in order.
BasicReads ==
    << "rainfall_1h", "rainfall_3h", "humidity", "rainfall_1h", "pressure",
       "rainfall_1h", "wind_speed", "rainfall_1h", "humidity", "pressure" >>

\* The k-th basic rule.
BasicRule(k, row) ==
    CASE k = 1 -> row["rainfall_1h"] > 15000 \/ row["rainfall_3h"] > 30000
      [] k = 2 -> row["humidity"] > 85000 /\ row["rainfall_1h"] > 8000
      [] k = 3 -> row["pressure"] < 1005000 /\ row["rainfall_1h"] > 10000
      [] k = 4 -> row["wind_speed"] > 20000 /\ row["rainfall_1h"] > 5000
      [] k = 5 -> row["humidity"] > 90000 /\ row["pressure"] < 1000000

\* The label of a row in basic mode after the first upto rules.
BasicLabel(row, upto) ==
    IF \E k \in 1..upto : BasicRule(k, row) THEN 1 ELSE 0

\* create_flood_labels(df): the table afterwards (the function writes into
\* the table it is given) and the exception it raised (<<>>: none).
create_flood_labels(frame) ==
    LET has_river_data == /\ "water_level" \in frame.columns
                          /\ "alert_level_exceeded" \in frame.columns
        Zero(row)  == 0
        Basic5(row) == BasicLabel(row, 5)
    IN  IF has_river_data
        THEN LET miss == FirstMissing(AdvancedReads, frame.columns)
             IN  IF miss # 0
                 THEN [frame  |-> WithColumn(frame, "flood_risk_level", Zero),
                       raised |-> << "KeyError", AdvancedReads[miss] >>]
                 ELSE [frame  |-> WithColumn(frame, "flood_risk_level",
                                             AdvancedLabel),
                       raised |-> <<>>]
        ELSE LET miss == FirstMissing(BasicReads, frame.columns)
                 done == (miss - 1) \div 2
                 Partial(row) == BasicLabel(row, done)
             IN  IF miss # 0
                 THEN [frame  |-> WithColumn(frame, "flood_risk", Partial),
                       raised |-> << "KeyError", BasicReads[miss] >>]
                 ELSE [frame  |-> WithColumn(frame, "flood_risk", Basic5),
                       raised |-> <<>>]

\* A table of one row: the values of rec at the columns columns.
OneRow(columns, rec) ==
    [columns |-> columns,
     rows    |-> << [row |-> [c \in columns |-> rec[c]], n |-> 1] >>]

\* Values on both sides of every threshold the advanced rules test.
Rain1hValues ==
    {5000, 6000, 9000, 10000, 11000, 15000, 16000, 20000, 25000}

Rain3hValues ==
    {10000, 25000, 26000, 45000, 46000}

RatioValues ==
    {900, 1200, 1300, 1500, 1600}

HumidityValues ==
    {60000, 85000, 86000, 90000, 91000}

PressureValues ==
    {999000, 1000000, 1004000, 1005000, 1015000}

\* The rows of load_combined_data over these values; the columns no rule
\* reads are held at one value.
CombinedRows ==
    { [temperature |-> 26000, humidity |-> h, pressure |-> p,
       rainfall_1h |-> r1, rainfall_3h |-> r3, wind_speed |-> 10000,
       water_level |-> 200000, water_level_ratio |-> q,
       flow_rate_normal |-> 800, alert_level_exceeded |-> a,
       trend_rising |-> up, trend_falling |-> 0] :
        h \in HumidityValues, p \in PressureValues, r1 \in Rain1hValues,
        r3 \in Rain3hValues, q \in RatioValues, a \in 0..3, up \in {0, 1} }

\* The two sample inputs of the rule engine, with the fields they leave
\* open at one value, and their variants in rainfall_1h and alert level.
SampleRows ==
    { [temperature |-> 26000, humidity |-> 70000, pressure |-> 1013000,
       rainfall_1h |-> r1, rainfall_3h |-> 10000, wind_speed |-> 10000,
       water_level |-> 200000, water_level_ratio |-> 1000,
       flow_rate_normal |-> 800, alert_level_exceeded |-> a,
       trend_rising |-> 0, trend_falling |-> 0] :
        r1 \in {5000, 25000}, a \in {0, 3} }
    \cup
    { [temperature |-> 26000, humidity |-> 60000, pressure |-> 1015000,
       rainfall_1h |-> 5000, rainfall_3h |-> 10000, wind_speed |-> w,
       water_level |-> 200000, water_level_ratio |-> 900,
       flow_rate_normal |-> 800, alert_level_exceeded |-> 0,
       trend_rising |-> 0, trend_falling |-> 0] : w \in {10000, 25000} }

\* The fields the first and the second sample input carry.
HighSampleFields ==
    {"rainfall_1h", "alert_level_exceeded", "water_level_ratio",
     "trend_rising", "humidity", "pressure"}

LowSampleFields ==
    {"rainfall_1h", "rainfall_3h", "alert_level_exceeded",
     "water_level_ratio", "humidity", "pressure"}

\* The tables create_flood_labels is given: combined rows, weather-only
\* rows (load_data_from_db), and the sample inputs as they are written.
LabelFrames ==
    {OneRow(WeatherColumns \cup RiverColumns, rec) :
        rec \in CombinedRows \cup SampleRows}
    \cup {OneRow(WeatherColumns, rec) : rec \in SampleRows}
    \cup {OneRow(HighSampleFields, rec) : rec \in SampleRows}
    \cup {OneRow(LowSampleFields, rec) : rec \in SampleRows}

\* "real_df = create_flood_labels(real_df)" of main.
LabelFrame ==
    /\ predictor.pc = "loaded"
    /\ \E out \in {create_flood_labels(df)} :
          /\ df' = out.frame
          /\ predictor' = [pc     |-> IF out.raised = <<>> THEN "labelled"
                                      ELSE "raised",
                           raised |-> out.raised]
    /\ UNCHANGED << crawlerVars, shown, trained, call, gui >>

\* train_model before it was called.
NotTrained ==
    [returned |-> <<>>, mode |-> "none", split |-> "none", fits |-> 0,
     failure |-> "none"]

InitLabel ==
    /\ CrawlerIdle
    /\ shown = <<>>
    /\ df \in LabelFrames
    /\ predictor = [pc |-> "loaded", raised |-> <<>>]
    /\ trained = NotTrained
    /\ call = NotCalled
    /\ gui = NoModel

NextLabel ==
    LabelFrame

SpecLabel ==
    InitLabel /\ [][NextLabel]_vars

\* The columns the table had when it was loaded.
LoadedColumns ==
    df.columns \ LabelColumns

\* create_flood_labels has returned or raised.
Labelled ==
    predictor.pc \in {"labelled", "raised"}

\* C14: in advanced mode a row is labelled HIGH (2) iff one of the six
\* HIGH conditions holds, otherwise MODERATE (1) iff one of the seven
\* MODERATE conditions holds, otherwise LOW (0); a row that matches a HIGH
\* and a MODERATE condition is HIGH.
C14_AdvancedLabels ==
    predictor.pc = "labelled" /\ "flood_risk_level" \in df.columns
    => \A k \in DOMAIN df.rows :
          LET v == df.rows[k].row
              r1 == v["rainfall_1h"]
              r3 == v["rainfall_3h"]
              a  == v["alert_level_exceeded"]
              q  == v["water_level_ratio"]
              up == v["trend_rising"] = 1
              h  == v["humidity"]
              p  == v["pressure"]
              high == \/ r1 > 20000
                      \/ r3 > 45000
                      \/ a >= 3
                      \/ q > 1500 /\ up
                      \/ r1 > 15000 /\ a >= 2
                      \/ h > 90000 /\ p < 1000000 /\ r1 > 10000
              moderate == \/ 10000 < r1 /\ r1 <= 20000
                          \/ 25000 < r3 /\ r3 <= 45000
                          \/ a = 2
                          \/ a = 1 /\ up
                          \/ 1200 < q /\ q <= 1500
                          \/ h > 85000 /\ r1 > 5000
                          \/ p < 1005000 /\ r1 > 8000
          IN  /\ v["flood_risk_level"] = 2 <=> high
              /\ v["flood_risk_level"] = 1 <=> ~high /\ moderate
              /\ v["flood_risk_level"] = 0 <=> ~high /\ ~moderate

\* C14 witness: a row that matches a HIGH condition (alert level 3) and a
\* MODERATE condition (rainfall_1h of 11 mm) was labelled HIGH.
C14_Witness ==
    /\ predictor.pc = "labelled"
    /\ \E k \in DOMAIN df.rows :
          LET v == df.rows[k].row
          IN  /\ "flood_risk_level" \in DOMAIN v
              /\ v["alert_level_exceeded"] = 3
              /\ v["rainfall_1h"] = 11000
              /\ v["rainfall_3h"] = 10000
              /\ v["flood_risk_level"] = 2

\* The columns create_flood_labels needs for its advanced rules.
AdvancedColumns ==
    {"water_level"} \cup {AdvancedReads[k] : k \in DOMAIN AdvancedReads}

\* C15 (as stated): the rule engine, given a feature vector of exactly the
\* fields rainfall_1h, alert_level_exceeded, water_level_ratio,
\* trend_rising, humidity and pressure with rainfall_1h > 20 or
\* alert_level_exceeded >= 3, returns the label HIGH.
C15_Original ==
    Labelled /\ LoadedColumns = HighSampleFields
    => \A k \in DOMAIN df.rows :
          LET v == df.rows[k].row
          IN  v["rainfall_1h"] > 20000 \/ v["alert_level_exceeded"] >= 3
              => /\ predictor.raised = <<>>
                 /\ "flood_risk_level" \in df.columns
                 /\ v["flood_risk_level"] = 2

\* C15 (amended): given a row that carries water_level and every column
\* the advanced rules read, the rule engine returns HIGH (2) whenever
\* rainfall_1h > 20 or alert_level_exceeded >= 3; given exactly the six
\* fields of the sample input it takes its basic rules (there is no
\* water_level column) and raises KeyError at rainfall_3h.
C15_HighOnCompleteRow ==
    /\ Labelled /\ AdvancedColumns \subseteq LoadedColumns
       => /\ predictor.raised = <<>>
          /\ \A k \in DOMAIN df.rows :
                LET v == df.rows[k].row
                IN  v["rainfall_1h"] > 20000 \/ v["alert_level_exceeded"] >= 3
                    => v["flood_risk_level"] = 2
    /\ Labelled /\ LoadedColumns = HighSampleFields
       => /\ predictor.raised = << "KeyError", "rainfall_3h" >>
          /\ "flood_risk_level" \notin df.columns

\* C15 witness: the sample input (rainfall_1h 25, alert level 3, ratio 1.0,
\* not rising, humidity 70, pressure 1013) in a complete row was labelled
\* HIGH.
C15_Witness ==
    /\ predictor.pc = "labelled"
    /\ AdvancedColumns \subseteq LoadedColumns
    /\ \E k \in DOMAIN df.rows :
          LET v == df.rows[k].row
          IN  /\ v["rainfall_1h"] = 25000 /\ v["alert_level_exceeded"] = 3
              /\ v["water_level_ratio"] = 1000 /\ v["trend_rising"] = 0
              /\ v["humidity"] = 70000 /\ v["pressure"] = 1013000
              /\ v["flood_risk_level"] = 2

\* C16 (as stated): the rule engine, given a feature vector of exactly the
\* fields rainfall_1h, rainfall_3h, alert_level_exceeded,
\* water_level_ratio, humidity and pressure whose values match none of the
\* HIGH or MODERATE conditions, returns the label LOW.
C16_Original ==
    Labelled /\ LoadedColumns = LowSampleFields
    => \A k \in DOMAIN df.rows :
          LET v == df.rows[k].row
          IN  /\ v["rainfall_1h"] <= 5000 /\ v["rainfall_3h"] <= 25000
              /\ v["alert_level_exceeded"] = 0
              /\ v["water_level_ratio"] <= 1200
              => /\ predictor.raised = <<>>
                 /\ "flood_risk_level" \in df.columns
                 /\ v["flood_risk_level"] = 0

\* C16 (amended): given a row that carries water_level and every column
\* the advanced rules read and that matches none of the HIGH and MODERATE
\* conditions, the rule engine returns LOW (0); given exactly the six
\* fields of the sample input it takes its basic rules and raises KeyError
\* at wind_speed.
C16_LowOnCompleteRow ==
    /\ Labelled /\ AdvancedColumns \subseteq LoadedColumns
       => /\ predictor.raised = <<>>
          /\ \A k \in DOMAIN df.rows :
                LET v == df.rows[k].row
                    r1 == v["rainfall_1h"]
                    r3 == v["rainfall_3h"]
                    a  == v["alert_level_exceeded"]
                    q  == v["water_level_ratio"]
                    up == v["trend_rising"] = 1
                    h  == v["humidity"]
                    p  == v["pressure"]
                IN  /\ r1 <= 10000 /\ r3 <= 25000 /\ a \in {0, 1} /\ q <= 1200
                    /\ ~(a = 1 /\ up)
                    /\ ~(h > 85000 /\ r1 > 5000)
                    /\ ~(p < 1005000 /\ r1 > 8000)
                    => v["flood_risk_level"] = 0
    /\ Labelled /\ LoadedColumns = LowSampleFields
       => /\ predictor.raised = << "KeyError", "wind_speed" >>
          /\ "flood_risk_level" \notin df.columns

\* C16 witness: the sample input (rainfall_1h 5, rainfall_3h 10, alert
\* level 0, ratio 0.9, humidity 60, pressure 1015) in a complete row was
\* labelled LOW.
C16_Witness ==
    /\ predictor.pc = "labelled"
    /\ AdvancedColumns \subseteq LoadedColumns
    /\ \E k \in DOMAIN df.rows :
          LET v == df.rows[k].row
          IN  /\ v["rainfall_1h"] = 5000 /\ v["rainfall_3h"] = 10000
              /\ v["alert_level_exceeded"] = 0
              /\ v["water_level_ratio"] = 900
              /\ v["humidity"] = 60000 /\ v["pressure"] = 1015000
              /\ v["flood_risk_level"] = 0

(* ---------------------------------------------------------------------- *)
(* train_model (src/predictor.py)                                          *)
(*                                                                         *)
(* The classifier is opaque: of a fit the model keeps the mode, the number *)
(* of rows it was fitted on and whether fit raised; of the evaluation, the *)
(* set of classes that occur in y_test or y_pred (classification_report    *)
(* raises when their number differs from that of target_names).            *)
(* ---------------------------------------------------------------------- *)

\* The two feature lists.
AdvancedFeatures ==
    << "temperature", "humidity", "pressure", "rainfall_1h", "rainfall_3h",
       "wind_speed", "water_level", "water_level_ratio", "flow_rate_normal",
       "alert_level_exceeded", "trend_rising", "trend_falling" >>

BasicFeatures ==
    << "temperature", "humidity", "pressure", "rainfall_1h", "rainfall_3h",
       "wind_speed" >>

\* A size check that also rejects a table of exactly 10 rows.
InsufficientDataAtTen(frame) ==
    FrameLen(frame) <= 10

\* "if len(df) < 10".
InsufficientData(frame) ==
    FrameLen(frame) < 10

\* has_river_data of train_model.
has_river_data(frame) ==
    "water_level" \in frame.columns /\ "flood_risk_level" \in frame.columns

\* y.unique(), and the number of rows of class c.
Classes(frame, target) ==
    {frame.rows[k].row[target] : k \in DOMAIN frame.rows}

ClassCount(frame, target, c) ==
    LET RECURSIVE Sum(_)
        Sum(k) == IF k = 0 THEN 0
                  ELSE (IF frame.rows[k].row[target] = c
                        THEN frame.rows[k].n ELSE 0) + Sum(k - 1)
    IN  Sum(Len(frame.rows))

\* train_test_split(..., stratify=y) raises when a class has a single row
\* (with more than 80 rows the test part holds at least one row per class).
StratifiedSplitFails(frame, target) ==
    \E c \in Classes(frame, target) : ClassCount(frame, target, c) < 2

\* A split that is attempted whatever the size of the table.
SplitAlways(frame, target) ==
    IF Cardinality(Classes(frame, target)) > 1
       /\ ~StratifiedSplitFails(frame, target)
    THEN "stratified" ELSE "plain"

\* The split train_model makes: "stratified", "plain" (the split without
\* stratify, in the except branch), or "same" (X_train, X_test = X, X).
SplitOf(frame, target) ==
    IF FrameLen(frame) > 80 /\ Cardinality(Classes(frame, target)) > 1
    THEN IF StratifiedSplitFails(frame, target) THEN "plain" ELSE "stratified"
    ELSE "same"

\* len(X_train): the table less the test part, ceil(0.2 * n) rows.
TrainSize(n, split) ==
    IF split = "same" THEN n ELSE n - ((n + 4) \div 5)

\* classification_report(y_test, y_pred, target_names=...) raises when the
\* classes seen are not as many as the names.
ReportRaises(is_advanced, seen) ==
    Cardinality(seen) # (IF is_advanced THEN 3 ELSE 2)

\* A return after the try block that lets the exception through.
AfterFitUnguarded(failed, model, features, is_advanced) ==
    IF failed
    THEN [returned |-> <<>>, raised |-> << "Exception", "fit" >>]
    ELSE [returned |-> << <<model>>, <<features>>, is_advanced >>,
          raised   |-> <<>>]

\* A return that hands back False for the flag in both modes.
AfterFitFlagLost(failed, model, features, is_advanced) ==
    IF failed
    THEN [returned |-> << <<>>, <<>>, FALSE >>, raised |-> <<>>]
    ELSE [returned |-> << <<model>>, <<features>>, FALSE >>,
          raised   |-> <<>>]

\* The two returns of the try block: the model, or the failure sentinel
\* (None, None, False).
AfterFit(failed, model, features, is_advanced) ==
    IF failed
    THEN [returned |-> << <<>>, <<>>, FALSE >>, raised |-> <<>>]
    ELSE [returned |-> << <<model>>, <<features>>, is_advanced >>,
          raised   |-> <<>>]

\* train_model(df): what it returns (a tuple; None is <<>>, a value v is
\* <<v>>), the exception it lets through, and how it got there: the mode,
\* the split, the number of fits, and what raised inside the try block
\* ("fit", "report" or "none").  fit says whether model.fit raises, seen is
\* the set of classes in y_test or y_pred.
train_model(frame, fit, seen) ==
    IF InsufficientData(frame)
    THEN [returned |-> << <<>>, <<>> >>, raised |-> <<>>,
          mode |-> "none", split |-> "none", fits |-> 0, failure |-> "none"]
    ELSE LET is_advanced == has_river_data(frame)
             features == IF is_advanced THEN AdvancedFeatures ELSE BasicFeatures
             target   == IF is_advanced THEN "flood_risk_level" ELSE "flood_risk"
             mode     == IF is_advanced THEN "advanced" ELSE "basic"
             miss     == FirstMissing(features \o << target >>, frame.columns)
         IN  IF miss # 0
             THEN [returned |-> <<>>,
                   raised |-> << "KeyError", (features \o << target >>)[miss] >>,
                   mode |-> mode, split |-> "none", fits |-> 0,
                   failure |-> "none"]
             ELSE LET split  == SplitOf(frame, target)
                      model  == [mode |-> mode,
                                 rows |-> TrainSize(FrameLen(frame), split)]
                      failed == fit = "raise" \/ ReportRaises(is_advanced, seen)
                      out    == AfterFit(failed, model, features, is_advanced)
                  IN  [returned |-> out.returned, raised |-> out.raised,
                       mode |-> mode, split |-> split, fits |-> 1,
                       failure |-> IF fit = "raise" THEN "fit"
                                   ELSE IF failed THEN "report" ELSE "none"]

\* The classes an evaluation can see: all of them when the model is
\* evaluated on the rows it was fitted on, some of them after a split.
SeenSets(frame) ==
    LET target == IF has_river_data(frame) THEN "flood_risk_level"
                  ELSE "flood_risk"
        all    == IF target \in frame.columns THEN Classes(frame, target)
                  ELSE {}
    IN  IF all = {} THEN {{}}
        ELSE IF SplitOf(frame, target) = "same" THEN {all}
        ELSE SUBSET all \ {{}}

\* "result = train_model(df)".
TrainModel ==
    /\ predictor.pc = "combined"
    /\ \E fit \in {"ok", "raise"}, seen \in SeenSets(df) :
          \E out \in {train_model(df, fit, seen)} :
              /\ trained' = [returned |-> out.returned, mode |-> out.mode,
                             split |-> out.split, fits |-> out.fits,
                             failure |-> out.failure]
              /\ predictor' = [pc     |-> IF out.raised = <<>> THEN "trained"
                                          ELSE "raised",
                               raised |-> out.raised]
    /\ UNCHANGED << crawlerVars, shown, df, call, gui >>

\* The numbers of rows of one class in a corpus: none, one, and numbers
\* whose sums fall on both sides of 10 and of 80.
ClassSizes ==
    {0, 1, 4, 5, 40, 41, 81}

\* A labelled corpus: per class c of the label column target, sizes[c]
\* rows that carry the columns columns.
Corpus(columns, target, sizes) ==
    LET rec(c) == [temperature |-> 26000, humidity |-> 60000 + 15000 * c,
                   pressure |-> 1013000, rainfall_1h |-> 5000 + 10000 * c,
                   rainfall_3h |-> 10000 + 20000 * c, wind_speed |-> 10000,
                   water_level |-> 120000 + 60000 * c,
                   water_level_ratio |-> 800 + 400 * c,
                   flow_rate_normal |-> 400 + 500 * c,
                   alert_level_exceeded |-> c, trend_rising |-> 0,
                   trend_falling |-> 0, flood_risk_level |-> c,
                   flood_risk |-> c]
        group(c) == [row |-> [k \in columns \cup {target} |-> rec(c)[k]],
                     n   |-> sizes[c + 1]]
        Present(g) == g.n > 0
    IN  [columns |-> columns \cup {target},
         rows    |-> SelectSeq([c \in 1..Len(sizes) |-> group(c - 1)], Present)]

\* The corpora train_model is given: combined ones with the 3-level label
\* and weather-only ones with the binary label, of every mix of sizes.
TrainFrames ==
    {Corpus(WeatherColumns \cup RiverColumns, "flood_risk_level",
            << a, b, c >>) : a, b, c \in ClassSizes}
    \cup {Corpus(WeatherColumns, "flood_risk", << a, b >>) :
            a, b \in ClassSizes}

InitTrain ==
    /\ CrawlerIdle
    /\ shown = <<>>
    /\ df \in {f \in TrainFrames : f.rows # <<>>}
    /\ predictor = [pc |-> "combined", raised |-> <<>>]
    /\ trained = NotTrained
    /\ call = NotCalled
    /\ gui = NoModel

NextTrain ==
    TrainModel

SpecTrain ==
    InitTrain /\ [][NextTrain]_vars

(* ---------------------------------------------------------------------- *)
(* Properties of train_model                                               *)
(* ---------------------------------------------------------------------- *)

\* train_model has returned or raised.
TrainEnded ==
    predictor.pc \in {"trained", "raised"}

\* The label column of the corpus, its classes, and the rows of its
\* smallest class.
Target ==
    IF "flood_risk_level" \in df.columns THEN "flood_risk_level"
    ELSE "flood_risk"

CorpusClasses ==
    {df.rows[k].row[Target] : k \in DOMAIN df.rows}

\* C17: a corpus of fewer than 10 rows gets the insufficient-data sentinel
\* (None, None) and no classifier is fitted; a corpus of exactly 10 rows is
\* not rejected: a classifier is fitted on it.
C17_InsufficientDataSentinel ==
    TrainEnded
    => /\ FrameLen(df) < 10
          => /\ predictor.pc = "trained"
             /\ trained.returned = << <<>>, <<>> >>
             /\ trained.fits = 0
       /\ FrameLen(df) = 10
          => /\ Len(trained.returned) = 3
             /\ trained.fits = 1

\* C17 witness: train_model returned the sentinel for a corpus of 9 rows.
C17_Witness ==
    /\ predictor.pc = "trained"
    /\ FrameLen(df) = 9
    /\ trained.returned = << <<>>, <<>> >>

\* train_model handed back a flag (a tuple of three).
FlagReturned ==
    predictor.pc = "trained" /\ Len(trained.returned) = 3

C19_Original ==
    TrainEnded /\ trained.fits = 1
    => /\ predictor.raised = <<>>
       /\ trained.split = "stratified"
          => FrameLen(df) > 80 /\ Cardinality(CorpusClasses) > 1
       /\ trained.split = "same" => FrameLen(df) < 2

\* C19 (amended): train_model makes a stratified 80/20 split when the
\* corpus holds more than 80 rows and more than one class; when that split
\* fails (a class of a single row) it makes the non-stratified 80/20 split
\* instead; when the corpus holds at most 80 rows or a single class it
\* makes no split and trains and evaluates on the same set.  The failure
\* of the stratified split does not leave train_model.
C19_SplitChain ==
    TrainEnded /\ trained.fits = 1
    => LET n      == FrameLen(df)
           large  == n > 80 /\ Cardinality(CorpusClasses) > 1
           single == \E c \in CorpusClasses : ClassCount(df, Target, c) = 1
           held   == (n + 4) \div 5
       IN  /\ predictor.raised = <<>>
           /\ trained.split = "stratified" <=> large /\ ~single
           /\ trained.split = "plain" <=> large /\ single
           /\ trained.split = "same" <=> ~large
           /\ trained.returned[1] # <<>>
              => trained.returned[1][1].rows =
                    IF trained.split = "same" THEN n ELSE n - held

\* C19 witness: the stratified split of a corpus of more than 80 rows
\* failed, and train_model returned a model fitted after the
\* non-stratified split.
C19_Witness ==
    /\ predictor.pc = "trained"
    /\ FrameLen(df) > 80
    /\ trained.split = "plain"
    /\ trained.returned[1] # <<>>

\* C20: when fitting or evaluating the classifier raises, train_model
\* returns the failure sentinel (None, None, False) and lets no exception
\* through.
C20_FailureSentinel ==
    TrainEnded /\ trained.failure # "none"
    => /\ predictor.pc = "trained"
       /\ predictor.raised = <<>>
       /\ trained.returned = << <<>>, <<>>, FALSE >>

\* C20 witness: the fit worked in advanced mode, the report raised (two
\* classes seen for three names), and the failure sentinel came back.
C20_Witness ==
    /\ predictor.pc = "trained"
    /\ trained.mode = "advanced"
    /\ trained.failure = "report"
    /\ trained.returned = << <<>>, <<>>, FALSE >>

(* ---------------------------------------------------------------------- *)
(* predict_flood_risk (predictor.py)                                        *)
(* ---------------------------------------------------------------------- *)

\* Probabilities are in thousandths.  A classifier is seen through its
\* classes_ (the labels it was fitted on, ascending) and through the vector
\* predict_proba returns, one entry per entry of classes_.
One ==
    1000

\* The position of the largest entry of a vector (the first, on a tie) and
\* that entry: np.argmax and max.
ArgMax(probabilities) ==
    CHOOSE k \in DOMAIN probabilities :
        \A j \in DOMAIN probabilities :
            \/ probabilities[k] > probabilities[j]
            \/ probabilities[k] = probabilities[j] /\ k <= j

MaxOf(probabilities) ==
    probabilities[ArgMax(probabilities)]

\* model.predict(X)[0]: the label of classes_ whose probability is largest.
ModelPredict(classes, probabilities) ==
    classes[ArgMax(probabilities)]

risk_labels ==
    << "LOW", "MODERATE", "HIGH" >>

risk_colors ==
    << "green", "orange", "red" >>

\* A loop that leaves out the labels beyond the length of the vector.
ProbabilityMapUnpadded(probabilities) ==
    [i \in {j \in 1..3 : j <= Len(probabilities)} |-> probabilities[i]]

\* "for i, label in enumerate(risk_labels)": the entry of the i-th label is
\* the i-th entry of the vector, or 0.0 beyond its length.  The map is
\* indexed by the position of the label in risk_labels.
ProbabilityMap(probabilities) ==
    [i \in 1..3 |-> IF i <= Len(probabilities) THEN probabilities[i] ELSE 0]

\* The result dict of the advanced branch.
AdvancedResult(prediction, probabilities) ==
    [risk_level    |-> risk_labels[prediction + 1],
     risk_numeric  |-> prediction,
     probabilities |-> ProbabilityMap(probabilities),
     confidence    |-> MaxOf(probabilities),
     color         |-> risk_colors[prediction + 1]]

\* The result dict of the basic branch.
BasicResult(prediction, probabilities) ==
    [flood_risk           |-> prediction,
     probability_no_flood |-> probabilities[1],
     probability_flood    |-> IF Len(probabilities) > 1 THEN probabilities[2]
                              ELSE One - probabilities[1],
     confidence           |-> MaxOf(probabilities)]

\* A body without the try block: the exception reaches the caller.
PredictReturnUnguarded(failed, result) ==
    IF failed THEN [returned |-> <<>>, raised |-> << "Exception" >>]
    ELSE [returned |-> << result >>, raised |-> <<>>]

\* "return result", or "except Exception: ... return None".
PredictReturn(failed, result) ==
    IF failed THEN [returned |-> <<>>, raised |-> <<>>]
    ELSE [returned |-> << result >>, raised |-> <<>>]

\* predict_flood_risk(model, features, weather_data, is_advanced): what it
\* returns (None is <<>>) and the exception it lets through.  model and
\* features are <<>> for None; weather_data is the set of keys of the input
\* dict; classes and probabilities are the classifier's classes_ and the
\* vector its predict_proba returns; fails says whether the classifier
\* raises.
predict_flood_risk(model, classes, features, weather_data, is_advanced, probabilities, fails) ==
    IF model = <<>>
    THEN [returned |-> <<>>, raised |-> <<>>]
    ELSE LET keyError == \/ features = <<>>
                         \/ FirstMissing(features[1], weather_data) # 0
             prediction == ModelPredict(classes, probabilities)
         IN  PredictReturn(
                 keyError \/ fails \/ (is_advanced /\ prediction > 2),
                 IF is_advanced THEN AdvancedResult(prediction, probabilities)
                 ELSE BasicResult(prediction, probabilities))

\* classes_ of a classifier fitted on the labels of fitted, ascending.
SortedClasses(fitted) ==
    LET In(c) == c \in fitted
    IN  SelectSeq(<< 0, 1, 2 >>, In)

\* The label sets a fit on the training part can see.  A split without
\* stratify may put every row of some classes into the test part (20% of
\* the rows); the other splits leave rows of every class to the fit.
FittedClasses(frame, target, split) ==
    LET all  == Classes(frame, target)
        n    == FrameLen(frame)
        test == n - TrainSize(n, split)
        RECURSIVE Rows(_)
        Rows(gone) == IF gone = {} THEN 0
                      ELSE LET c == CHOOSE x \in gone : TRUE
                           IN  ClassCount(frame, target, c) + Rows(gone \ {c})
    IN  IF split = "plain"
        THEN {all \ gone : gone \in {g \in SUBSET all : g # all
                                                        /\ Rows(g) <= test}}
        ELSE {all}

\* The vectors predict_proba can return for k classes: k shares of One.
Shares ==
    {0, 200, 300, 500, 700, 1000}

ProbabilityVectors(k) ==
    LET RECURSIVE Sum(_, _)
        Sum(p, i) == IF i = 0 THEN 0 ELSE p[i] + Sum(p, i - 1)
    IN  {p \in [1..k -> Shares] : Sum(p, k) = One}

\* The keys of the dicts predict_flood_risk is given: the 12 fields of an
\* advanced scenario, the 6 of a basic one, and dicts that lack fields.
InputVectors ==
    {WeatherColumns \cup RiverColumns, WeatherColumns,
     WeatherColumns \ {"rainfall_3h"}, {}}

\* "result = predict_flood_risk(model, features, scenario, is_advanced)"
\* with what train_model returned: the model and, with a model, its feature
\* list and flag.
PredictFloodRisk ==
    /\ predictor.pc = "trained"
    /\ \E model \in {trained.returned[1]}, weather_data \in InputVectors,
          fails \in BOOLEAN :
       \E features \in (IF model = <<>>
                        THEN {<<>>, << BasicFeatures >>, << AdvancedFeatures >>}
                        ELSE {trained.returned[2]}),
          is_advanced \in (IF model = <<>> THEN BOOLEAN
                           ELSE {trained.returned[3]}),
          fitted \in (IF model = <<>> THEN {{}}
                      ELSE FittedClasses(df, Target, trained.split)) :
       \E classes \in {SortedClasses(fitted)} :
       \E probabilities \in (IF model = <<>> THEN {<<>>}
                             ELSE ProbabilityVectors(Len(classes))) :
       \E out \in {predict_flood_risk(model, classes, features, weather_data,
                                      is_advanced, probabilities, fails)} :
          /\ call' = [calls |-> call.calls + 1, model |-> model,
                      classes |-> classes, features |-> features,
                      weather_data |-> weather_data,
                      is_advanced |-> is_advanced,
                      probabilities |-> probabilities,
                      returned |-> out.returned, raised |-> out.raised]
          /\ predictor' = [pc     |-> IF out.raised = <<>> THEN "predicted"
                                      ELSE "raised",
                           raised |-> out.raised]
    /\ UNCHANGED << crawlerVars, shown, df, trained, gui >>

NextPredict ==
    \/ TrainModel
    \/ PredictFloodRisk

SpecPredict ==
    InitTrain /\ [][NextPredict]_vars

(* ---------------------------------------------------------------------- *)
(* Properties of predict_flood_risk                                        *)
(* ---------------------------------------------------------------------- *)

\* predict_flood_risk has returned or raised.
Predicted ==
    call.calls > 0

\* The call had what it takes to compute a result: a model, and a dict
\* with every feature of the list.
Computable ==
    /\ call.model # <<>>
    /\ call.features # <<>>
    /\ FirstMissing(call.features[1], call.weather_data) = 0

\* C21: predict_flood_risk called without a model returns None and raises
\* nothing, whatever the feature list, the input dict and the flag are; and
\* a call with a model never lets an exception through: when the dict lacks
\* a feature of the list it returns None.
C21_NullModelAndFailuresGiveNone ==
    Predicted
    => /\ call.raised = <<>>
       /\ predictor.pc # "raised"
       /\ call.model = <<>> => call.returned = <<>>
       /\ (call.model # <<>> /\ ~Computable) => call.returned = <<>>

\* A call without a model, made with a feature list, a full dict and the
\* advanced flag, that returned None.
C21_Witness ==
    /\ Predicted
    /\ call.returned = <<>>
    /\ call.model = <<>>
    /\ call.features = << AdvancedFeatures >>
    /\ call.is_advanced
    /\ call.weather_data = WeatherColumns \cup RiverColumns

\* The position of a label in risk_labels, and what a call returned.
LabelIndex(label) ==
    CHOOSE i \in DOMAIN risk_labels : risk_labels[i] = label

Result ==
    call.returned[1]

\* C22: in every result of predict_flood_risk the predicted class is a class
\* whose entry of the returned probability map is the largest one, and
\* confidence is that largest entry: in advanced mode
\* probabilities[risk_level] = confidence = the largest of the three entries,
\* in basic mode the probability of the class flood_risk is confidence, the
\* larger of probability_no_flood and probability_flood.
C22_RiskLevelIsArgMax ==
    (Predicted /\ call.returned # <<>>)
    => IF call.is_advanced
       THEN /\ Result.confidence = MaxOf(Result.probabilities)
            /\ Result.probabilities[LabelIndex(Result.risk_level)]
                   = Result.confidence
       ELSE /\ Result.confidence
                   = Max2(Result.probability_no_flood, Result.probability_flood)
            /\ (IF Result.flood_risk = 1 THEN Result.probability_flood
                ELSE Result.probability_no_flood) = Result.confidence

\* The sum of the entries of a probability map.
MapSum(map) ==
    LET RECURSIVE Sum(_)
        Sum(keys) == IF keys = {} THEN 0
                     ELSE LET k == CHOOSE x \in keys : TRUE
                          IN  map[k] + Sum(keys \ {k})
    IN  Sum(DOMAIN map)

\* C23: every result of predict_flood_risk, called with a model and the
\* flag train_model returned with it, carries exactly 3 probabilities (LOW,
\* MODERATE, HIGH) in advanced mode and exactly 2 (no-flood, flood) in basic
\* mode, and they sum to 1, also when the model was fitted on fewer classes
\* than the mode has.
C23_ProbabilityMapComplete ==
    (Predicted /\ call.returned # <<>>)
    => IF call.is_advanced
       THEN /\ DOMAIN Result.probabilities = DOMAIN risk_labels
            /\ MapSum(Result.probabilities) = One
       ELSE /\ {"probability_no_flood", "probability_flood"}
                   \subseteq DOMAIN Result
            /\ "probabilities" \notin DOMAIN Result
            /\ Result.probability_no_flood + Result.probability_flood = One

\* An advanced result of a model fitted on two of the three classes, both
\* with a positive probability.
C23_Witness ==
    /\ Predicted
    /\ call.returned # <<>>
    /\ call.is_advanced
    /\ Len(call.classes) = 2
    /\ call.probabilities = << 300, 700 >>
    /\ Result.probabilities[3] = 0

(* ---------------------------------------------------------------------- *)
(* generate_advanced_training_data (predictor.py)                           *)
(* ---------------------------------------------------------------------- *)

\* np.random.uniform(lo, hi) is lo + (hi - lo) * u in double precision, with
\* u <= 1 - 2^-53.  A range is << lo, hi, top >> in thousandths: the draw is
\* in lo .. hi - 1 + top, where top = 1 when the rounding of the sum reaches
\* hi itself (0.9 + 0.5 * u rounds to 1.4) and 0 when it does not
\* (0.6 + 0.3 * u stays below 0.9).  temperature is an offset from avg_temp;
\* pressure is an offset from avg_pressure in the LOW and MODERATE batches.
LowRanges ==
    [temperature       |-> << -2000, 3000, 0 >>,
     humidity          |-> << 40000, 75000, 1 >>,
     pressure          |-> << 0, 15000, 0 >>,
     rainfall_1h       |-> << 0, 8000, 0 >>,
     rainfall_3h       |-> << 0, 20000, 0 >>,
     wind_speed        |-> << 3000, 15000, 0 >>,
     water_level       |-> << 80000, 140000, 1 >>,
     water_level_ratio |-> << 600, 900, 0 >>,
     flow_rate         |-> << 200000, 600000, 1 >>,
     flow_rate_normal  |-> << 200, 600, 0 >>]

ModerateRanges ==
    [temperature       |-> << -3000, 1000, 0 >>,
     humidity          |-> << 70000, 90000, 1 >>,
     pressure          |-> << -10000, 5000, 0 >>,
     rainfall_1h       |-> << 5000, 18000, 1 >>,
     rainfall_3h       |-> << 15000, 40000, 1 >>,
     wind_speed        |-> << 8000, 25000, 0 >>,
     water_level       |-> << 160000, 240000, 1 >>,
     water_level_ratio |-> << 900, 1400, 1 >>,
     flow_rate         |-> << 500000, 1200000, 1 >>,
     flow_rate_normal  |-> << 500, 1200, 0 >>]

HighRanges ==
    [temperature       |-> << -5000, -1000, 0 >>,
     humidity          |-> << 85000, 99000, 1 >>,
     pressure          |-> << 980000, 1005000, 1 >>,
     rainfall_1h       |-> << 15000, 50000, 0 >>,
     rainfall_3h       |-> << 35000, 100000, 0 >>,
     wind_speed        |-> << 20000, 60000, 0 >>,
     water_level       |-> << 240000, 320000, 1 >>,
     water_level_ratio |-> << 1400, 2100, 1 >>,
     flow_rate         |-> << 1200000, 3000000, 1 >>,
     flow_rate_normal  |-> << 1200, 3000, 1 >>]

\* Batches whose HIGH rainfall_1h starts where the MODERATE one does.
BatchRangesWide ==
    << LowRanges, ModerateRanges,
       [HighRanges EXCEPT !.rainfall_1h = << 5000, 50000, 0 >>] >>

\* The three batches, by label: their ranges, their sizes ("range(60)",
\* "range(50)", "range(40)") and the values np.random.choice picks
\* alert_level_exceeded from (the LOW batch writes the literal 0).
BatchRanges ==
    << LowRanges, ModerateRanges, HighRanges >>

BatchSizes ==
    << 60, 50, 40 >>

AlertChoices ==
    << {0}, {0, 1, 2}, {2, 3} >>

\* The values of a field the model draws: the ends of the three ranges of
\* the field and the values next below them, as far as they lie in the
\* range drawn from.
DrawGrid(field) ==
    UNION {{BatchRanges[c][field][1], BatchRanges[c][field][2],
            BatchRanges[c][field][2] - 1} : c \in 1..3}

InRange(v, range) ==
    range[1] <= v /\ v <= range[2] - 1 + range[3]

UniformValues(field, range) ==
    {v \in DrawGrid(field) : InRange(v, range)}

\* The k-th smallest value of a set (its largest, beyond its size).
Pick(S, k) ==
    LET RECURSIVE Nth(_, _)
        Nth(T, j) == LET least == CHOOSE x \in T : \A y \in T : x <= y
                     IN  IF j <= 1 \/ Cardinality(T) = 1 THEN least
                         ELSE Nth(T \ {least}, j - 1)
    IN  Nth(S, k)

\* The columns of a synthetic sample, and those the model holds at 0 (the
\* names, the coordinates and the time stamp).
UnreadColumns ==
    {"location_name", "river_name", "latitude", "longitude", "created_at"}

SyntheticColumns ==
    WeatherColumns \cup RiverColumns \cup UnreadColumns
    \cup {"normal_level", "alert_level_1", "alert_level_2", "alert_level_3",
          "flow_rate", "flood_risk_level"}

\* The mean of a column of a table (its rows are weighted by n).
Mean(frame, column) ==
    LET RECURSIVE Sum(_)
        Sum(k) == IF k = 0 THEN 0
                  ELSE frame.rows[k].row[column] * frame.rows[k].n + Sum(k - 1)
    IN  SDiv(Sum(Len(frame.rows)), FrameLen(frame))

\* One sample of the batch of label c: every uniform field takes the k-th
\* value of its range, alert_level_exceeded is alert, the trends are up and
\* down.
Sample(c, k, alert, up, down, avg_temp, avg_pressure) ==
    LET drawn(field) == Pick(UniformValues(field, BatchRanges[c + 1][field]), k)
        fixed == [normal_level |-> 150000, alert_level_1 |-> 180000,
                  alert_level_2 |-> 220000, alert_level_3 |-> 270000,
                  alert_level_exceeded |-> alert, trend_rising |-> up,
                  trend_falling |-> down, flood_risk_level |-> c]
    IN  [column \in SyntheticColumns |->
            IF column \in UnreadColumns THEN 0
            ELSE IF column \in DOMAIN fixed THEN fixed[column]
            ELSE IF column = "temperature" THEN avg_temp + drawn(column)
            ELSE IF column = "pressure" /\ c < 2
                 THEN avg_pressure + drawn(column)
            ELSE drawn(column)]

\* A sample without the alert level of its batch: the level is always 1.
BatchAlertOne(c, alert) ==
    1

\* "'alert_level_exceeded': 0" and "'alert_level_exceeded': alert_exceeded".
BatchAlert(c, alert) ==
    alert

\* A generator whose HIGH batch has 39 samples.
BatchSizeShort(c) ==
    IF c = 2 THEN 39 ELSE BatchSizes[c + 1]

BatchSize(c) ==
    BatchSizes[c + 1]

\* generate_advanced_training_data(real_df): the table it returns, or the
\* exception it lets through.  draws gives, per batch, the draw k, the
\* alert level and the trends of its samples.
generate_advanced_training_data(real_df, draws) ==
    LET empty == FrameLen(real_df) = 0
        reads == << "temperature", "humidity", "pressure" >>
        miss  == IF empty THEN 0 ELSE FirstMissing(reads, real_df.columns)
    IN  IF miss # 0
        THEN [frame |-> real_df, raised |-> << "KeyError", reads[miss] >>]
        ELSE LET avg_temp     == IF empty THEN 26000
                                 ELSE Mean(real_df, "temperature")
                 avg_pressure == IF empty THEN 1013000
                                 ELSE Mean(real_df, "pressure")
                 batch(c) ==
                     [row |-> Sample(c, draws[c + 1].k,
                                     BatchAlert(c, draws[c + 1].alert),
                                     draws[c + 1].up, draws[c + 1].down,
                                     avg_temp, avg_pressure),
                      n   |-> BatchSize(c)]
             IN  [frame  |-> [columns |-> SyntheticColumns,
                              rows    |-> << batch(0), batch(1), batch(2) >>],
                  raised |-> <<>>]

\* The draws of one batch: which value of its range every uniform field
\* takes, the alert level, and the trends (the same in the three batches).
MaxDraw ==
    6

Draws(c, up, down) ==
    [k : 1..MaxDraw, alert : AlertChoices[c + 1], up : {up}, down : {down}]

\* The tables the generator is given: the empty one, and rows of
\* load_combined_data and of load_data_from_db.
EmptyFrame ==
    [columns |-> WeatherColumns, rows |-> <<>>]

RealSizes ==
    {0, 5}

RealFrames ==
    {EmptyFrame}
    \cup {Corpus(WeatherColumns \cup RiverColumns, "flood_risk_level",
                 << a, b, c >>) : a, b, c \in RealSizes}
    \cup {Corpus(WeatherColumns, "flood_risk", << a, b >>) : a, b \in RealSizes}

\* "train_data = generate_advanced_training_data(df)".
GenerateData ==
    /\ predictor.pc = "loaded"
    /\ \E up, down \in {0, 1} :
       \E low \in Draws(0, up, down), moderate \in Draws(1, up, down),
          high \in Draws(2, up, down) :
          \E out \in {generate_advanced_training_data(
                          df, << low, moderate, high >>)} :
              /\ df' = out.frame
              /\ predictor' = [pc     |-> IF out.raised = <<>> THEN "generated"
                                          ELSE "raised",
                               raised |-> out.raised]
    /\ UNCHANGED << crawlerVars, shown, trained, call, gui >>

InitGenerate ==
    /\ CrawlerIdle
    /\ shown = <<>>
    /\ df \in RealFrames
    /\ predictor = [pc |-> "loaded", raised |-> <<>>]
    /\ trained = NotTrained
    /\ call = NotCalled
    /\ gui = NoModel

NextGenerate ==
    GenerateData

SpecGenerate ==
    InitGenerate /\ [][NextGenerate]_vars

(* ---------------------------------------------------------------------- *)
(* Properties of generate_advanced_training_data                           *)
(* ---------------------------------------------------------------------- *)

\* The samples of the generated table that carry the label c.
Generated ==
    predictor.pc = "generated"

BatchOf(c) ==
    {k \in DOMAIN df.rows : df.rows[k].row["flood_risk_level"] = c}

\* C25: in the table the generator returns, every sample of the LOW batch
\* has alert_level_exceeded = 0 and every sample of the HIGH batch has
\* alert_level_exceeded 2 or 3.
C25_BatchAlertLevels ==
    Generated
    => /\ \A k \in BatchOf(0) : df.rows[k].row["alert_level_exceeded"] = 0
       /\ \A k \in BatchOf(2) : df.rows[k].row["alert_level_exceeded"] \in {2, 3}

\* A generated table with a LOW batch, and a HIGH batch at alert level 3.
C25_Witness ==
    /\ Generated
    /\ BatchOf(0) # {}
    /\ \E k \in BatchOf(2) : df.rows[k].row["alert_level_exceeded"] = 3

\* The features whose ranges tell the classes apart.
ClassFeatures ==
    {"rainfall_1h", "rainfall_3h", "water_level_ratio", "alert_level_exceeded"}

\* Two samples of the generated table, of the labels a and b, that have
\* the same value of a feature.
SharedValue(a, b, feature) ==
    \E j \in BatchOf(a), k \in BatchOf(b) :
        df.rows[j].row[feature] = df.rows[k].row[feature]

\* C27 (as stated): for rainfall_1h, rainfall_3h, water_level_ratio and
\* alert_level_exceeded no value can be drawn for two different classes: in
\* a generated table samples of different labels never have the same value
\* of one of these features.
C27_Original ==
    Generated
    => \A a, b \in 0..2, feature \in ClassFeatures :
           a # b => ~SharedValue(a, b, feature)

\* C27 (amended): samples of the LOW and of the HIGH batch never have the
\* same value of one of the four features; samples of neighbouring batches
\* can, and when they share a water_level_ratio it is the bound at which
\* the two ranges meet.
C27_DisjointLowHighOnly ==
    Generated
    => /\ \A feature \in ClassFeatures : ~SharedValue(0, 2, feature)
       /\ \A a \in 0..1 : \A j \in BatchOf(a), k \in BatchOf(a + 1) :
              df.rows[j].row["water_level_ratio"]
                  = df.rows[k].row["water_level_ratio"]
              => df.rows[j].row["water_level_ratio"]
                     = BatchRanges[a + 2]["water_level_ratio"][1]

\* A generated table whose LOW and MODERATE samples have the same
\* rainfall_1h and rainfall_3h and alert level 0, and whose MODERATE and
\* HIGH samples differ in all four features.
C27_Witness ==
    /\ Generated
    /\ SharedValue(0, 1, "rainfall_1h")
    /\ SharedValue(0, 1, "rainfall_3h")
    /\ SharedValue(0, 1, "alert_level_exceeded")
    /\ \A feature \in ClassFeatures : ~SharedValue(1, 2, feature)

(* ---------------------------------------------------------------------- *)
(* The drivers of the predictor: main (predictor.py) and the screen         *)
(* ---------------------------------------------------------------------- *)

\* pd.concat([a, b], ignore_index=True): the rows of both tables over the
\* columns of both, NaN where a row has no value.
Concat(a, b) ==
    LET columns == a.columns \cup b.columns
        Wide(group) == [row |-> [c \in columns |->
                                    IF c \in DOMAIN group.row THEN group.row[c]
                                    ELSE "NaN"],
                        n   |-> group.n]
    IN  [columns |-> columns,
         rows    |-> [k \in 1..Len(a.rows) |-> Wide(a.rows[k])]
                     \o [k \in 1..Len(b.rows) |-> Wide(b.rows[k])]]

\* The ranges of the basic samples of main, << lo, hi >> in thousandths:
\* 30 samples of heavy rain (flood_risk 1) and 40 without flood.
FloodRanges ==
    [temperature |-> << 23000, 28000 >>, humidity |-> << 80000, 98000 >>,
     pressure |-> << 998000, 1018000 >>, rainfall_1h |-> << 20000, 50000 >>,
     rainfall_3h |-> << 40000, 100000 >>, wind_speed |-> << 15000, 35000 >>]

NoFloodRanges ==
    [temperature |-> << 24000, 29000 >>, humidity |-> << 40000, 85000 >>,
     pressure |-> << 1008000, 1028000 >>, rainfall_1h |-> << 0, 12000 >>,
     rainfall_3h |-> << 0, 25000 >>, wind_speed |-> << 3000, 20000 >>]

BasicColumns ==
    WeatherColumns
    \cup {"location_name", "latitude", "longitude", "flood_risk", "created_at"}

\* The basic samples: every field at the low end of its range (k = 1) or
\* just below the high end.
BasicSynthetic(k) ==
    LET row(ranges, c) ==
            [column \in BasicColumns |->
                IF column = "flood_risk" THEN c
                ELSE IF column \notin DOMAIN ranges THEN 0
                ELSE IF k = 1 THEN ranges[column][1]
                ELSE ranges[column][2] - 1]
    IN  [columns |-> BasicColumns,
         rows    |-> << [row |-> row(FloodRanges, 1), n |-> 30],
                        [row |-> row(NoFloodRanges, 0), n |-> 40] >>]

\* The draws of the batches in the runs of the drivers: the low or the
\* high end of every range, the lowest or the highest alert level of a
\* batch, rising samples.
DriverDraws ==
    {draws \in Draws(0, 1, 0) \X Draws(1, 1, 0) \X Draws(2, 1, 0) :
        /\ draws[1].k \in {1, MaxDraw}
        /\ draws[2].k = draws[1].k
        /\ draws[3].k = draws[1].k
        /\ draws[2].alert # 1}

\* What the store holds when a driver loads it: nothing, rows of
\* load_combined_data, or rows of load_data_from_db.
StoredFrames ==
    LET Dry(rec) == /\ rec.wind_speed = 10000
                    /\ rec.alert_level_exceeded = 0
                    /\ rec.humidity = 70000
    IN  {EmptyFrame}
        \cup {OneRow(WeatherColumns \cup RiverColumns, rec) :
                 rec \in {r \in SampleRows : Dry(r)}}
        \cup {OneRow(WeatherColumns, rec) : rec \in {r \in SampleRows : Dry(r)}}

\* main up to "df = pd.concat(...)" / "df = synthetic_df": the corpus it
\* assembles from the table loaded, or the exception that ends it.
MainCorpus(loaded, draws) ==
    IF "water_level" \in loaded.columns /\ FrameLen(loaded) > 0
    THEN LET real == create_flood_labels(loaded)
             synthetic == generate_advanced_training_data(real.frame, draws)
         IN  IF real.raised # <<>> THEN real
             ELSE IF synthetic.raised # <<>> THEN synthetic
             ELSE [frame  |-> Concat(real.frame, synthetic.frame),
                   raised |-> <<>>]
    ELSE LET real == IF FrameLen(loaded) > 0 THEN create_flood_labels(loaded)
                     ELSE [frame |-> loaded, raised |-> <<>>]
             synthetic == BasicSynthetic(draws[1].k)
         IN  IF real.raised # <<>> THEN real
             ELSE [frame  |-> IF FrameLen(real.frame) > 0
                              THEN Concat(real.frame, synthetic)
                              ELSE synthetic,
                   raised |-> <<>>]

\* main from load_combined_data() to the corpus it hands to train_model.
AssembleCorpus ==
    /\ predictor.pc = "start"
    /\ \E draws \in DriverDraws :
          \E out \in {MainCorpus(df, draws)} :
              /\ df' = out.frame
              /\ predictor' = [pc     |-> IF out.raised = <<>> THEN "combined"
                                          ELSE "raised",
                               raised |-> out.raised]
    /\ UNCHANGED << crawlerVars, shown, trained, call, gui >>

\* The operations of the screen in one behaviour, and the water levels
\* entered for a prediction.
MaxOps ==
    3

GuiLevels ==
    {120000, 240000}

\* The vectors predict_proba returns on the screen: one class, or two
\* classes in a tie.
GuiVectors(k) ==
    {p \in ProbabilityVectors(k) : \A i \in 1..k : p[i] \in {0, 500, 1000}}

\* The fields perform_prediction adds to input_data for an advanced model.
GuiRiverFields ==
    {"water_level", "water_level_ratio", "normal_level", "alert_level_1",
     "alert_level_2", "alert_level_3", "flow_rate", "flow_rate_normal",
     "alert_level_exceeded", "trend_rising", "trend_falling"}

\* A flag that training leaves as it was.
FlagAfterTrainingKept(model, is_advanced) ==
    is_advanced

\* "if self.model: self.is_advanced = True".
FlagAfterTraining(model, is_advanced) ==
    IF model # <<>> THEN TRUE ELSE is_advanced

\* train_prediction_model: it loads the store, generates the corpus
\* (train_data, kept in df), trains and keeps the model and the feature
\* list; an exception is shown in a message box and changes nothing else.
TrainPredictionModel ==
    /\ predictor.pc = "gui"
    /\ gui.ops < MaxOps
    /\ \E loaded \in StoredFrames, draws \in DriverDraws, fit \in {"ok", "raise"} :
       \E train_data \in {generate_advanced_training_data(loaded, draws)} :
       \E seen \in (IF FrameLen(loaded) = 0 \/ train_data.raised # <<>>
                    THEN {{}} ELSE SeenSets(train_data.frame)) :
          IF FrameLen(loaded) = 0 \/ train_data.raised # <<>>
          THEN gui' = [gui EXCEPT !.ops = @ + 1] /\ df' = df
          ELSE \E result \in {train_model(train_data.frame, fit, seen)} :
               /\ df' = train_data.frame
               /\ IF result.raised # <<>>
                  THEN gui' = [gui EXCEPT !.ops = @ + 1]
                  ELSE gui' =
                         [model       |-> result.returned[1],
                          classes     |->
                              IF result.returned[1] = <<>> THEN <<>>
                              ELSE SortedClasses(
                                       Classes(train_data.frame,
                                               "flood_risk_level")),
                          features    |-> result.returned[2],
                          is_advanced |-> FlagAfterTraining(
                                              result.returned[1],
                                              gui.is_advanced),
                          result      |-> result.returned,
                          ops         |-> gui.ops + 1]
    /\ UNCHANGED << crawlerVars, shown, predictor, trained, call >>

\* perform_prediction: without a model it warns and returns; with one it
\* builds input_data, calls predict_flood_risk and displays the result
\* (display_prediction_result computes the alert level shown).
PerformPrediction ==
    /\ predictor.pc = "gui"
    /\ gui.ops < MaxOps
    /\ IF gui.model = <<>>
       THEN /\ gui' = [gui EXCEPT !.ops = @ + 1]
            /\ UNCHANGED << call, shown >>
       ELSE \E water_level \in GuiLevels, fails \in BOOLEAN,
               probabilities \in GuiVectors(Len(gui.classes)) :
            \E input_data \in {WeatherColumns
                               \cup (IF gui.is_advanced THEN GuiRiverFields
                                     ELSE {})} :
            \E out \in {predict_flood_risk(gui.model, gui.classes,
                                           gui.features, input_data,
                                           gui.is_advanced, probabilities,
                                           fails)} :
               /\ gui' = [gui EXCEPT !.ops = @ + 1]
               /\ call' = [calls |-> call.calls + 1, model |-> gui.model,
                           classes |-> gui.classes,
                           features |-> gui.features,
                           weather_data |-> input_data,
                           is_advanced |-> gui.is_advanced,
                           probabilities |-> probabilities,
                           returned |-> out.returned, raised |-> out.raised]
               /\ shown' =
                    IF out.returned = <<>> THEN shown
                    ELSE LET risk_level ==
                                 IF "risk_level" \in DOMAIN out.returned[1]
                                 THEN out.returned[1].risk_level ELSE "LOW"
                             level == IF "water_level" \in input_data
                                      THEN water_level ELSE 0
                         IN  Append(shown,
                                 [water_level |-> level,
                                  risk_level  |-> risk_level,
                                  alert_level |->
                                      calculate_alert_level_numeric(
                                          level, risk_level)])
    /\ UNCHANGED << crawlerVars, df, predictor, trained >>

\* The drivers: generate_advanced_training_data on a table of its own
\* ("loaded"), a run of main ("start"), or the screen ("gui").
InitDrivers ==
    /\ CrawlerIdle
    /\ shown = <<>>
    /\ trained = NotTrained
    /\ call = NotCalled
    /\ gui = NoModel
    /\ \/ /\ df \in RealFrames
          /\ predictor = [pc |-> "loaded", raised |-> <<>>]
       \/ /\ df \in StoredFrames
          /\ predictor = [pc |-> "start", raised |-> <<>>]
       \/ /\ df = EmptyFrame
          /\ predictor = [pc |-> "gui", raised |-> <<>>]

NextDrivers ==
    \/ GenerateData
    \/ AssembleCorpus
    \/ TrainModel
    \/ TrainPredictionModel
    \/ PerformPrediction

SpecDrivers ==
    InitDrivers /\ [][NextDrivers]_vars

(* ---------------------------------------------------------------------- *)
(* Properties of the drivers                                               *)
(* ---------------------------------------------------------------------- *)

\* The insufficient-data return of train_model, and the corpora: the one
\* generate_advanced_training_data returned, the one main assembled, and
\* train_data of the screen.
Sentinel ==
    << <<>>, <<>> >>

SyntheticCorpus ==
    Generated \/ (predictor.pc = "gui" /\ df # EmptyFrame)

MainCorpusReady ==
    predictor.pc \in {"combined", "trained"}

\* C26: the table generate_advanced_training_data returns holds exactly 60
\* samples labelled LOW, 50 MODERATE and 40 HIGH, whatever table it was
\* given (the empty one too); every corpus main hands to train_model holds
\* at least 10 rows and every class of its label; and neither main nor the
\* screen gets the insufficient-data return (None, None) from train_model.
C26_BatchSizesAndNoSentinel ==
    /\ SyntheticCorpus
       => /\ \A c \in 0..2 : ClassCount(df, "flood_risk_level", c) = BatchSizes[c + 1]
          /\ FrameLen(df) = 150
    /\ MainCorpusReady
       => /\ FrameLen(df) >= 10
          /\ Classes(df, Target) = (IF has_river_data(df) THEN {0, 1, 2} ELSE {0, 1})
    /\ predictor.pc = "trained" => trained.returned # Sentinel
    /\ gui.result # Sentinel

\* main trained a model on a corpus of one stored row and the 150
\* generated samples.
C26_Witness ==
    /\ predictor.pc = "trained"
    /\ Len(trained.returned) = 3
    /\ trained.returned[1] # <<>>
    /\ has_river_data(df)
    /\ FrameLen(df) = 151
    /\ ClassCount(df, "flood_risk_level", 2) >= 40

\* The screen called predict_flood_risk with a model.
GuiPredicted ==
    predictor.pc = "gui" /\ call.calls > 0 /\ call.model # <<>>

\* C24: whenever the screen calls predict_flood_risk with a model, the dict
\* it passes has every feature of the feature list it holds for the model
\* (12 for a model trained in advanced mode, 6 for a basic one) and the flag
\* it passes is the mode the model was trained in; the same holds of the
\* model, list and flag the screen keeps between its operations.
C24_VectorAndFlagMatchModel ==
    /\ GuiPredicted
       => /\ call.features # <<>>
          /\ FirstMissing(call.features[1], call.weather_data) = 0
          /\ Len(call.features[1])
                 = (IF call.model[1].mode = "advanced" THEN 12 ELSE 6)
          /\ call.is_advanced = (call.model[1].mode = "advanced")
    /\ gui.model # <<>>
       => /\ gui.features # <<>>
          /\ gui.is_advanced = (gui.model[1].mode = "advanced")

\* The screen trained, and a prediction with the model returned a result.
C24_Witness ==
    /\ GuiPredicted
    /\ call.returned # <<>>
    /\ gui.ops = 2
    /\ Len(call.features[1]) = 12

(* ---------------------------------------------------------------------- *)
(* Properties of the loop of main over the stations                        *)
(* ---------------------------------------------------------------------- *)

\* A sequence of stations that is strictly increasing: registry order, no
\* station twice.
Ascending(seq) ==
    \A j, k \in DOMAIN seq : j < k => seq[j] < seq[k]

\* C28: a run that has entered the loop attempts the stations one at a
\* time in registry order, each exactly once, whatever store operation or
\* simulation fails (a run that fails the connection probe attempts none);
\* it appends at most one record per station; and when it has ended,
\* success_count is the number of stations whose record was appended.
C28_SequentialRunCountsAppended ==
    \A r \in DOMAIN driver :
        /\ driver[r].pc \in {"weather", "simulate", "save", "recount",
                             "cleanup", "delay"}
           => /\ driver[r].i \in DriverStations
              /\ driver[r].visited = 1..driver[r].i
        /\ Ascending(driver[r].appended)
        /\ \A k \in DOMAIN driver[r].appended :
               driver[r].appended[k] \in driver[r].visited
        /\ driver[r].pc = "done"
           => /\ driver[r].visited = DriverStations
              /\ driver[r].success_count = Len(driver[r].appended)

\* The run r has simulated its station after the read of the previous
\* level failed although the station has persisted records.
ReadFailed(r) ==
    /\ driver[r].pc \in {"save", "recount"}
    /\ driver[r].pred = 0
    /\ driver[r].river_data # <<>>
    /\ Len(store[driver[r].i]) > (IF driver[r].pc = "recount" THEN 1 ELSE 0)

\* C29: when the read of the previous level fails (no connection, or the
\* query raises) while the station has persisted records,
\* simulate_river_level does not abort: it returns the record it returns
\* for a station without history, computed from the default level
\* normal_level * seasonal factor * a factor in [0.9, 1.1] with previous
\* trend 'stable'; main goes on to save it.
C29_FailedReadUsesDefault ==
    \A r \in DOMAIN driver :
        ReadFailed(r)
        => LET station == RIVER_STATIONS[driver[r].i]
               d       == SeedSeq[driver[r].seed]
               record  == driver[r].river_data[1]
               base    == (station.normal_level
                           * get_seasonal_factor(d.u_def_season)) \div 1000
           IN  /\ record = simulate_river_level(station, <<>>,
                                                driver[r].weather_data, d)
               /\ 9 * base <= 10 * record.prev_level
               /\ 10 * record.prev_level <= 11 * base

\* The record computed from the default was appended, and it is more than
\* 9 cm away from the record persisted before it.
C29_Witness ==
    \E r \in DOMAIN driver :
        LET rows == store[driver[r].i]
        IN  /\ ReadFailed(r)
            /\ driver[r].pc = "recount"
            /\ rows[Len(rows)].water_level = driver[r].river_data[1].water_level
            /\ rows[Len(rows)].pred = 0
            /\ Abs(rows[Len(rows)].water_level - rows[Len(rows) - 1].water_level)
                   > 9000


\* C30: after each station cycle whose store calls succeed, at most 3
\* records dated today exist for the station, and the record appended by
\* the cycle is still the newest of the station after the cleanup; so the
\* previous level the next cycle of the station reads is the water_level
\* of the record appended last.
C30_CycleKeepsAppendedRecord ==
    [][cycles' = cycles + 1
       => LET rows   == store'[focus]
              record == lastCall'[1].result
          IN  /\ Cardinality({k \in 1..Len(rows) : rows[k].day = now'.day})
                     <= MIN_DAILY_RECORDS
              /\ rows # <<>>
              /\ rows[Len(rows)].id = NextId(store)
              /\ rows[Len(rows)].water_level = record.water_level
              /\ lastCall # <<>>
                    => /\ lastCall'[1].prev_data # <<>>
                       /\ lastCall'[1].prev_data[1]
                              = lastCall[1].result.water_level]_vars

\* A second cycle of the station has run on a table that held 3 records of
\* today, the cleanup has removed a record, and the level the cycle read
\* differs from the one before it.
C30_Witness ==
    /\ cycles = 2
    /\ Len(store[focus]) = MIN_DAILY_RECORDS
    /\ store[focus][1].id > 1
    /\ lastCall[1].prev_data # <<>>
    /\ lastCall[1].prev_data[1] # lastCall[1].result.water_level
    /\ store[focus][MIN_DAILY_RECORDS - 1].water_level = lastCall[1].prev_data[1]

====
